---- MODULE Spec2Model ----
(***************************************************************************)
(* Kernel communication layer of vscode-jupyter-console.                   *)
(*                                                                         *)
(*   KernelClient  (src/src/kernelClient.ts)  - the protocol client.  The  *)
(*       file holds two revisions of the class: lines 1-459 (execution     *)
(*       timeout, three sockets) and lines 461-1076 (no execution timeout, *)
(*       completion handled independently of the output callback, a fourth *)
(*       stdin socket).  The variable ver selects the revision.            *)
(*   KernelManager (src/src/kernelManager.ts) - the process supervisor.    *)
(*                                                                         *)
(* Asynchronous functions are cut at their awaits; timer callbacks, socket *)
(* messages and process events are actions of their own.                   *)
(***************************************************************************)
EXTENDS Integers, Sequences, FiniteSets, TLC

\* ---------------------------------------------------------------- bounds
MaxReq == 2
MaxMsgs == 2
MaxConnects == 2
MaxCalls == 2
MaxInterrupts == 2
MaxAwaited == 3
MaxAwaitedInterrupts == 1
MaxFrames == 2
MaxHandlers == 3

\* ------------------------------------------------------------- constants
MinPort == 1
MaxPort == 65535

VARIABLES
    ver,                    \* revision of kernelClient.ts: 1 or 2
    connectionInfo,         \* <<>> (null) or <<descriptor>>
    sockets,                \* shellSocket, iopubSocket, stdinSocket, controlSocket: socket id, 0 = null
    isConnected,
    outputCallbacks,        \* keys of the Map: msg ids
    completionCallbacks,    \* keys of the Map: msg ids
    iopubListenerRunning,
    iopubListenerPromise,   \* 0 (null) or the index of the loop in loops
    stdinListenerRunning,
    stdinListenerPromise,
    statusCallback,         \* TRUE when a status callback is registered
    lastStatus,             \* last value handed to the status callback
    socks,                  \* every zmq socket ever constructed: its state
    loops,                  \* every receive loop ever started
    reqs,                   \* every executeCode call that passed the guard; msg_id = index
    nMsgs,                  \* number of iopub messages received so far
    discPc,                 \* where disconnect() is suspended
    discAwait,              \* the loop whose promise disconnect() awaits
    discDone,               \* disconnect() has resolved and no connect() was called since
    connCall,               \* the last connect() call: descriptor, outcome, sockets constructed
    lastExec,               \* outcome of the last executeCode guard
    lastInterrupt,          \* outcome of the last interrupt() call
    ctrlSent,               \* the sockets an interrupt_request was sent on
    statusLog,              \* the invocations of the status callback: message position and value
    nDropped,               \* iopub messages dropped by the catch around the message handler
    wire,                   \* the multipart messages handed to socket.send()
    quota                   \* how many connects, requests and messages the run explores,
                            \* and whether it tells the output texts apart

clientVars == <<ver, connectionInfo, sockets, isConnected, outputCallbacks,
                completionCallbacks, iopubListenerRunning, iopubListenerPromise,
                stdinListenerRunning, stdinListenerPromise, statusCallback,
                lastStatus, socks, loops, reqs, nMsgs, discPc, discAwait,
                discDone, connCall, lastExec, lastInterrupt, ctrlSent,
                statusLog, nDropped, wire, quota>>

VARIABLES
    kernelProcess,          \* 0 (null) or the index in procs of the ChildProcess
    connectionFile,         \* 0 (null) or the process whose connection file path was matched
    procs,                  \* every process ever spawned
    starts,                 \* every startKernel() call
    stops,                  \* every stopKernel() call
    restarts,               \* every restartKernel() call
    calls,                  \* lifecycle calls issued by the caller so far
    interruptTimeoutHandle, \* 0 (null) or the index in checks of the timer
    statusCheckCallback,    \* TRUE when a busy predicate is registered
    checks,                 \* every delayed check scheduled by interruptKernel()
    lastOp,                 \* the lifecycle call issued last
    mquota                  \* how many lifecycle calls and interrupts the run explores

mgrVars == <<kernelProcess, connectionFile, procs, starts, stops, restarts, calls,
             interruptTimeoutHandle, statusCheckCallback, checks, lastOp, mquota>>

VARIABLES
    currentState            \* StatusBarManager.currentState, a KernelState

VARIABLES
    kernelClient,           \* extension.ts `kernelClient`: TRUE when it references a client
    handlers                \* every command handler and listener invocation

extVars == <<kernelClient, handlers>>

vars == <<clientVars, mgrVars, extVars, currentState>>

\* ------------------------------------------------------------ descriptors
RequiredFields == {"ip", "transport", "shell_port", "iopub_port", "stdin_port",
                   "control_port", "hb_port", "signature_scheme", "key"}

PortFields == <<"shell_port", "iopub_port", "stdin_port", "control_port", "hb_port">>

\* a JSON value found in a port field: a number, or something else (a string)
Num(n) == [isNum |-> TRUE, val |-> n]
Str(n) == [isNum |-> FALSE, val |-> n]

GoodPorts == [f \in {PortFields[i] : i \in 1..Len(PortFields)} |-> Num(5000)]

ValidDescriptor == [fields |-> RequiredFields, ports |-> GoodPorts]

BadPortValues == {Num(0), Num(-1), Num(MaxPort + 1), Str(5000)}

EdgePortValues == {Num(MinPort), Num(MaxPort)}

\* the descriptor with field f left out
Without(f) == [fields |-> RequiredFields \ {f}, ports |-> GoodPorts]

WithPort(f, v) == [fields |-> RequiredFields, ports |-> [GoodPorts EXCEPT ![f] = v]]

AllDescriptors ==
    {ValidDescriptor}
    \cup {Without(f) : f \in RequiredFields}
    \cup {WithPort(PortFields[i], v) : i \in 1..Len(PortFields), v \in BadPortValues \cup EdgePortValues}
    \cup {[fields |-> RequiredFields \ {"key", "ip"}, ports |-> [GoodPorts EXCEPT !["hb_port"] = Num(0)]]}

FewDescriptors == {ValidDescriptor, Without("key")}

\* the for-loop over portFields: index of the first offending field, 0 if none
RECURSIVE FirstBadPort(_, _)
BadPortBoundary(port) ==
    ~port.isNum \/ port.val < 0 \/ port.val > MaxPort
BadPort(port) ==
    ~port.isNum \/ port.val < MinPort \/ port.val > MaxPort
FirstBadPort(info, i) ==
    IF i > Len(PortFields) THEN 0
    ELSE IF BadPort(info.ports[PortFields[i]]) THEN i
    ELSE FirstBadPort(info, i + 1)

validateConnectionInfo(info) ==
    LET missingFields == {f \in RequiredFields : f \notin info.fields}
    IN  IF missingFields # {} THEN "missingFields"
        ELSE IF FirstBadPort(info, 1) # 0 THEN "invalidPort"
        ELSE "ok"

\* ---------------------------------------------------------------- sockets
Channels(v) == IF v = 1 THEN <<"shell", "iopub", "control">>
               ELSE <<"shell", "iopub", "stdin", "control">>

AllChannels == {"shell", "iopub", "stdin", "control"}

NoSockets == [c \in AllChannels |-> 0]

shellSocket == sockets["shell"]
iopubSocket == sockets["iopub"]
stdinSocket == sockets["stdin"]
controlSocket == sockets["control"]

Range(s) == {s[i] : i \in 1..Len(s)}

\* close() on every socket in ids
CloseAll(ss, ids) == [i \in 1..Len(ss) |-> IF i \in ids THEN "closed" ELSE ss[i]]

NoCall == [desc |-> <<>>, res |-> "none", created |-> {}]

ClientInit(q) ==
    /\ quota = q
    /\ ver \in {1, 2}
    /\ connectionInfo = <<>>
    /\ sockets = NoSockets
    /\ isConnected = FALSE
    /\ outputCallbacks = {}
    /\ completionCallbacks = {}
    /\ iopubListenerRunning = FALSE
    /\ iopubListenerPromise = 0
    /\ stdinListenerRunning = FALSE
    /\ stdinListenerPromise = 0
    /\ statusCallback = FALSE
    /\ lastStatus = "none"
    /\ socks = <<>>
    /\ loops = <<>>
    /\ reqs = <<>>
    /\ nMsgs = 0
    /\ discPc = "none"
    /\ discAwait = 0
    /\ discDone = FALSE
    /\ connCall = NoCall
    /\ lastExec = "none"
    /\ lastInterrupt = "none"
    /\ ctrlSent = {}
    /\ statusLog = <<>>
    /\ nDropped = 0
    /\ wire = <<>>

\* private currentState: KernelState = KernelState.Stopped
StatusBarInit == currentState = "stopped"

\* let kernelClient: KernelClient | null = null; no handler has run
ExtensionInit == kernelClient = FALSE /\ handlers = <<>>


\* ---------------------------------------------------------------- connect
ChanIndex(v, c) == CHOOSE i \in 1..Len(Channels(v)) : Channels(v)[i] = c

\* the references after `new zmq.Dealer()` etc.: ids Len(socks)+1 ...
NewSockets(v, base) ==
    [c \in AllChannels |->
        IF c \in Range(Channels(v)) THEN base + ChanIndex(v, c) ELSE 0]

Referenced(refs) == {refs[c] : c \in AllChannels} \ {0}

\* startIopubListener / startStdinListener: the loop iterates the socket
\* referenced when it starts
NewLoop(chan, sock) == [chan |-> chan, sock |-> sock, st |-> "running"]

\* the guard of startIopubListener(): a listener is started unless one runs
StartsIopubNever == FALSE
StartsIopub == ~iopubListenerRunning

\* the catch block of connect(): the sockets it closes and dereferences
CleanupShellOnly(refs) == {refs["shell"]} \ {0}
CleanupTargets(refs) == Referenced(refs)

\* outcome of reading and parsing the file: "readError", "parseError",
\* "nullJson" (the text `null`), or "object" (descriptor d)
ConnectOutcomes == {"readError", "parseError", "nullJson", "object"}

connect(d, outcome, failAt) ==
    LET n == Len(Channels(ver))
        base == Len(socks)
        info == IF outcome = "object" THEN <<d>>
                ELSE IF outcome = "nullJson" THEN <<>>
                ELSE connectionInfo
        valid == IF outcome = "object" THEN validateConnectionInfo(d) ELSE outcome
        fresh == NewSockets(ver, base)
        constructed == [i \in 1..(base + n) |->
                          IF i <= base THEN socks[i]
                          ELSE IF failAt = 0 \/ i - base < failAt THEN "connected"
                          ELSE "created"]
        startIopub == StartsIopub
        startStdin == ver = 2 /\ ~stdinListenerRunning
        loops1 == IF startIopub THEN Append(loops, NewLoop("iopub", fresh["iopub"])) ELSE loops
        loops2 == IF startStdin THEN Append(loops1, NewLoop("stdin", fresh["stdin"])) ELSE loops1
    IN
    /\ discPc = "none"
    /\ failAt \in 0..n
    /\ connectionInfo' = info
    /\ discDone' = FALSE
    /\ IF valid # "ok"
       THEN \* thrown before any socket is constructed; the catch block closes
            \* whatever the fields reference
            /\ failAt = 0
            /\ socks' = CloseAll(socks, CleanupTargets(sockets))
            /\ sockets' = NoSockets
            /\ isConnected' = FALSE
            /\ connCall' = [desc |-> IF outcome = "object" THEN <<d>> ELSE <<>>,
                            res |-> valid, created |-> {}]
            /\ UNCHANGED <<iopubListenerRunning, iopubListenerPromise,
                           stdinListenerRunning, stdinListenerPromise, loops>>
       ELSE /\ base + n <= quota.conn * n
            /\ IF failAt # 0
               THEN \* a socket.connect() threw: the catch block closes the new sockets
                    /\ socks' = CloseAll(constructed, CleanupTargets(fresh))
                    /\ sockets' = NoSockets
                    /\ isConnected' = FALSE
                    /\ connCall' = [desc |-> <<d>>, res |-> "socketError",
                                    created |-> Referenced(fresh)]
                    /\ UNCHANGED <<iopubListenerRunning, iopubListenerPromise,
                                   stdinListenerRunning, stdinListenerPromise, loops>>
               ELSE /\ socks' = constructed
                    /\ sockets' = fresh
                    /\ isConnected' = TRUE
                    /\ connCall' = [desc |-> <<d>>, res |-> "ok",
                                    created |-> Referenced(fresh)]
                    /\ loops' = loops2
                    /\ iopubListenerRunning' = TRUE
                    /\ iopubListenerPromise' =
                          IF startIopub THEN Len(loops1) ELSE iopubListenerPromise
                    /\ stdinListenerRunning' =
                          IF ver = 2 THEN TRUE ELSE stdinListenerRunning
                    /\ stdinListenerPromise' =
                          IF startStdin THEN Len(loops2) ELSE stdinListenerPromise
    /\ UNCHANGED <<ver, outputCallbacks, completionCallbacks, statusCallback,
                   lastStatus, reqs, nMsgs, discPc, discAwait, lastExec, quota>>
    /\ UNCHANGED <<mgrVars, wire, lastInterrupt, ctrlSent, statusLog, nDropped>>

\* a connect() call of a caller other than the command handlers
Connect(d, outcome, failAt) == connect(d, outcome, failAt) /\ UNCHANGED <<extVars, currentState>>

\* this.statusCallback = callback
StoreStatusCallback ==
    /\ statusCallback' = TRUE
    /\ UNCHANGED <<ver, connectionInfo, sockets, isConnected, outputCallbacks,
                   completionCallbacks, iopubListenerRunning, iopubListenerPromise,
                   stdinListenerRunning, stdinListenerPromise, lastStatus, socks,
                   loops, reqs, nMsgs, discPc, discAwait, discDone, connCall, lastExec, quota>>
    /\ UNCHANGED <<mgrVars, wire, lastInterrupt, ctrlSent, statusLog, nDropped>>

setStatusCallback ==
    /\ ~statusCallback
    /\ StoreStatusCallback
    /\ UNCHANGED <<extVars, currentState>>

\* ------------------------------------------------------------- disconnect
\* the awaits of disconnect(), in program order
DiscStages(v) == IF v = 1 THEN <<"shell", "iopub", "control", "waitIopub">>
                 ELSE <<"shell", "iopub", "stdin", "control", "waitIopub", "waitStdin">>

\* a disconnect() that forgets the control socket
StageCondNoControl(stage) ==
    CASE stage = "waitIopub" -> iopubListenerPromise # 0
      [] stage = "waitStdin" -> stdinListenerPromise # 0
      [] stage = "control" -> FALSE
      [] OTHER -> sockets[stage] # 0

\* the `if` in front of each await
StageCond(stage) ==
    CASE stage = "waitIopub" -> iopubListenerPromise # 0
      [] stage = "waitStdin" -> stdinListenerPromise # 0
      [] OTHER -> sockets[stage] # 0

\* the next await reached when running on from behind stage i (0: from the top)
NextAwait(i) ==
    LET st == DiscStages(ver)
        later == {j \in (i + 1)..Len(st) : StageCond(st[j])}
    IN  IF later = {} THEN 0 ELSE CHOOSE j \in later : \A k \in later : j <= k

StageIndex(stage) == CHOOSE i \in 1..Len(DiscStages(ver)) : DiscStages(ver)[i] = stage

\* run disconnect() from behind stage i up to its next await (or its end);
\* refs are the socket fields after stage i's own assignment
DiscRun(i, refs) ==
    LET j == NextAwait(i)
        stage == IF j = 0 THEN "none" ELSE DiscStages(ver)[j]
    IN  /\ sockets' = refs
        /\ discPc' = stage
        /\ socks' = IF stage \in AllChannels THEN CloseAll(socks, {sockets[stage]}) ELSE socks
        /\ discAwait' = IF stage = "waitIopub" THEN iopubListenerPromise
                        ELSE IF stage = "waitStdin" THEN stdinListenerPromise
                        ELSE 0
        /\ discDone' = (j = 0)

\* Map.clear()
NotCleared(cbs) == cbs
Cleared(cbs) == {}

MarkCleared(rs) == [r \in 1..Len(rs) |-> [rs[r] EXCEPT !.cleared = TRUE]]

\* disconnect() up to its first await
disconnect ==
    /\ discPc = "none"
    /\ isConnected' = FALSE
    /\ iopubListenerRunning' = FALSE
    /\ stdinListenerRunning' = FALSE
    /\ outputCallbacks' = Cleared(outputCallbacks)
    /\ completionCallbacks' = Cleared(completionCallbacks)
    /\ reqs' = MarkCleared(reqs)
    /\ DiscRun(0, sockets)
    /\ UNCHANGED <<ver, connectionInfo, iopubListenerPromise, stdinListenerPromise,
                   statusCallback, lastStatus, loops, nMsgs, connCall, lastExec, quota>>
    /\ UNCHANGED <<mgrVars, wire, lastInterrupt, ctrlSent, statusLog, nDropped>>

DisconnectCall == disconnect /\ UNCHANGED <<extVars, currentState>>

\* `await this.iopubListenerPromise`: the awaited receive loop has finished
AwaitSkipped == TRUE
AwaitSettled == discPc \in {"waitIopub", "waitStdin"} => loops[discAwait].st = "done"

DisconnectResume ==
    /\ discPc # "none"
    /\ AwaitSettled
    /\ DiscRun(StageIndex(discPc),
               IF discPc \in AllChannels THEN [sockets EXCEPT ![discPc] = 0] ELSE sockets)
    /\ UNCHANGED <<ver, connectionInfo, isConnected, outputCallbacks, completionCallbacks,
                   iopubListenerRunning, iopubListenerPromise, stdinListenerRunning,
                   stdinListenerPromise, statusCallback, lastStatus, loops, reqs,
                   nMsgs, connCall, lastExec, quota>>
    /\ UNCHANGED <<mgrVars, extVars, currentState, wire, lastInterrupt, ctrlSent, statusLog, nDropped>>

\* the `for await` ends once its socket is closed; the finally block runs
LoopExit(l) ==
    /\ l \in 1..Len(loops)
    /\ loops[l].st = "running"
    /\ socks[loops[l].sock] = "closed"
    /\ loops' = [loops EXCEPT ![l].st = "done"]
    /\ IF loops[l].chan = "iopub"
       THEN /\ iopubListenerRunning' = FALSE
            /\ iopubListenerPromise' = 0
            /\ UNCHANGED <<stdinListenerRunning, stdinListenerPromise>>
       ELSE /\ stdinListenerRunning' = FALSE
            /\ stdinListenerPromise' = 0
            /\ UNCHANGED <<iopubListenerRunning, iopubListenerPromise>>
    /\ UNCHANGED <<ver, connectionInfo, sockets, isConnected, outputCallbacks,
                   completionCallbacks, statusCallback, lastStatus, socks, reqs,
                   nMsgs, discPc, discAwait, discDone, connCall, lastExec, quota>>
    /\ UNCHANGED <<mgrVars, extVars, currentState, wire, lastInterrupt, ctrlSent, statusLog, nDropped>>


\* ------------------------------------------------------------ executeCode
\* a promise settles on the first resolve()/reject() only
Settle(q, outcome, err) ==
    IF q.fut = "pending" THEN [q EXCEPT !.fut = outcome, !.err = err] ELSE q

\* the code strings a caller passes
Codes == {"x = 1", "input()"}

\* the content of the execute_request that executeCode() builds
ExecuteRequest(code, enableOutputViewer) ==
    [code |-> code,
     silent |-> ~enableOutputViewer,
     store_history |-> FALSE,
     user_expressions |-> <<>>,
     allow_stdin |-> TRUE,
     stop_on_error |-> FALSE]

NewRequest(code, enableOutputViewer, hasOut, sendOk) ==
    [code |-> code,                         \* the argument of executeCode()
     enableOutputViewer |-> enableOutputViewer,  \* the configuration value it read
     content |-> ExecuteRequest(code, enableOutputViewer),
     hasOut |-> hasOut,
     fut |-> IF sendOk THEN "pending" ELSE "rejected",
     err |-> IF sendOk THEN "" ELSE "send",
     sendOk |-> sendOk,
     deadline |-> "pending",     \* the configured execution timeout has not elapsed yet
     outLog |-> <<>>,            \* the messages handed to onOutput: position, parent id, text
     idleFired |-> 0,            \* invocations of the completion callback
     timeoutFired |-> 0,         \* executions of the body of the timeout callback
     idleSeen |-> FALSE,         \* its idle status was processed while it was pending
     donePos |-> 0,              \* position of the message that fired the completion callback
     cleared |-> FALSE]          \* disconnect() cleared the maps after it was registered

\* the guard of executeCode(): `!this.shellSocket || !this.connectionInfo`
NoDescriptor(socket) == connectionInfo = <<>>
NotConnected(socket) == socket = 0 \/ connectionInfo = <<>>

\* hasOut: an onOutput callback is passed; sendOk: socket.send() succeeds;
\* enableOutputViewer: the value of the jupyterConsole.enableOutputViewer setting
executeCode(code, enableOutputViewer, hasOut, sendOk) ==
    /\ IF NotConnected(shellSocket)
       THEN /\ hasOut /\ sendOk
            /\ lastExec' = "notConnected"
            /\ UNCHANGED <<reqs, outputCallbacks, completionCallbacks>>
       ELSE LET id == Len(reqs) + 1
            IN  /\ Len(reqs) < quota.req
                /\ (shellSocket = 0 \/ socks[shellSocket] = "closed") => ~sendOk
                /\ lastExec' = "registered"
                /\ outputCallbacks' = IF hasOut THEN outputCallbacks \cup {id}
                                      ELSE outputCallbacks
                /\ completionCallbacks' = completionCallbacks \cup {id}
                /\ reqs' = Append(reqs, NewRequest(code, enableOutputViewer, hasOut, sendOk))
    /\ UNCHANGED <<ver, connectionInfo, sockets, isConnected, iopubListenerRunning,
                   iopubListenerPromise, stdinListenerRunning, stdinListenerPromise,
                   statusCallback, lastStatus, socks, loops, nMsgs, discPc, discAwait,
                   discDone, connCall, quota>>
    /\ UNCHANGED <<mgrVars, extVars, currentState, wire, lastInterrupt, ctrlSent, statusLog, nDropped>>

\* executeCode() of one piece of code under the default configuration
\* (enableOutputViewer defaults to false)
ExecuteCode(hasOut, sendOk) == executeCode("x = 1", FALSE, hasOut, sendOk)

\* the guard of interrupt(): `!this.controlSocket || !this.connectionInfo`
InterruptNoDescriptor(socket) == connectionInfo = <<>>
InterruptNotConnected(socket) == socket = 0 \/ connectionInfo = <<>>

\* interrupt(): an interrupt_request on the control socket; sendOk: socket.send() succeeds
SendInterrupt(sendOk) ==
    \* a call from a command handler is a task of its own: it cannot run between
    \* the `await socket.close()` steps of disconnect()
    /\ discPc \in {"none", "waitIopub", "waitStdin"}
    /\ IF InterruptNotConnected(controlSocket)
       THEN /\ sendOk
            /\ lastInterrupt' = "notConnected"
            /\ UNCHANGED ctrlSent
       ELSE IF sendOk /\ controlSocket # 0 /\ socks[controlSocket] = "connected"
       THEN /\ lastInterrupt' = "sent"
            /\ ctrlSent' = ctrlSent \cup {controlSocket}
       ELSE /\ ~sendOk
            /\ lastInterrupt' = "sendError"
            /\ UNCHANGED ctrlSent
    /\ UNCHANGED <<ver, connectionInfo, sockets, isConnected, outputCallbacks,
                   completionCallbacks, iopubListenerRunning, iopubListenerPromise,
                   stdinListenerRunning, stdinListenerPromise, statusCallback,
                   lastStatus, socks, loops, reqs, nMsgs, discPc, discAwait,
                   discDone, connCall, lastExec, statusLog, nDropped, quota>>
    /\ UNCHANGED <<mgrVars, wire>>

Interrupt(sendOk) == SendInterrupt(sendOk) /\ UNCHANGED <<extVars, currentState>>

\* ------------------------------------------------------------ the wire
\* Strings are sequences of character codes.
\* JSON.stringify of an object whose members are the numbers in obj
RECURSIVE Members(_)
Members(obj) ==
    IF obj = <<>> THEN <<>>
    ELSE IF Len(obj) = 1 THEN <<48 + obj[1]>>
    ELSE <<48 + obj[1], 44>> \o Members(Tail(obj))
Stringify(obj) == <<123>> \o Members(obj) \o <<125>>

\* signature_scheme.replace("hmac-", "")
Algorithm(scheme) == scheme.name

\* crypto.createHmac(algorithm, key) throws for a digest it does not know
KnownAlgorithms == {"sha256", "sha1"}

\* a keyed hash standing for HMAC: createHmac, update, digest("hex")
HashMod == 251
Multiplier(algorithm) == IF algorithm = "sha256" THEN 31 ELSE 37
createHmac(algorithm, key) == [mult |-> Multiplier(algorithm), h |-> key % HashMod]
RECURSIVE update(_, _)
update(hmac, str) ==
    IF str = <<>> THEN hmac
    ELSE update([hmac EXCEPT !.h = (@ * hmac.mult + str[1]) % HashMod], Tail(str))
HexDigit(d) == IF d < 10 THEN 48 + d ELSE 87 + d
digestHex(hmac) == <<HexDigit(hmac.h \div 16), HexDigit(hmac.h % 16)>>

\* the parts signMessage() feeds to the hash, in order
SignedPartsContentFirst(msg) ==
    <<Stringify(msg.content), Stringify(msg.header), Stringify(msg.parent_header),
      Stringify(msg.metadata)>>
SignedParts(msg) ==
    <<Stringify(msg.header), Stringify(msg.parent_header), Stringify(msg.metadata),
      Stringify(msg.content)>>

signMessage(info, msg) ==
    IF info = <<>> THEN <<>>
    ELSE LET parts == SignedParts(msg)
             hmac == createHmac(Algorithm(info[1].signature_scheme), info[1].key)
         IN  digestHex(update(update(update(update(hmac, parts[1]), parts[2]),
                                     parts[3]), parts[4]))

\* createMessage(): metadata is always {}
createMessage(header, content, parentHeader) ==
    [header |-> header, parent_header |-> parentHeader, metadata |-> <<>>,
     content |-> content]

Delimiter == "<IDS|MSG>"

\* the array sendMessage() hands to socket.send()
sendMessage(info, msg) ==
    <<Delimiter, signMessage(info, msg), Stringify(msg.header),
      Stringify(msg.parent_header), Stringify(msg.metadata), Stringify(msg.content)>>

\* descriptors that differ in key and signature scheme
Keys == {7, 200}
Schemes == {[prefix |-> TRUE, name |-> "sha256"], [prefix |-> TRUE, name |-> "sha1"],
            [prefix |-> FALSE, name |-> "bogus"]}
WireDescriptors ==
    {[fields |-> RequiredFields, ports |-> GoodPorts, key |-> k, signature_scheme |-> sch] :
        k \in Keys, sch \in Schemes}

\* execute_request, interrupt_request and input_reply messages
WireMessages ==
    {createMessage(<<1>>, <<2, 3>>, <<>>), createMessage(<<4>>, <<>>, <<>>),
     createMessage(<<5>>, <<6>>, <<1>>)}

\* a message is sent on channel ch: by executeCode() on shell and by
\* interrupt() on control, both behind their not-connected guard, and by the
\* stdin listener on stdin, after the user answered an input request
SendFrame(ch, msg) ==
    /\ Len(wire) < MaxFrames
    /\ ch \in {"shell", "control", "stdin"}
    /\ ch = "stdin" => ver = 2 /\ \E l \in 1..Len(loops) : loops[l].chan = "stdin"
    /\ ch # "stdin" => ~NotConnected(sockets[ch])
    /\ IF /\ (connectionInfo # <<>>
                => Algorithm(connectionInfo[1].signature_scheme) \in KnownAlgorithms)
          /\ sockets[ch] # 0
          /\ socks[sockets[ch]] = "connected"
       THEN wire' = Append(wire, [ch |-> ch, info |-> connectionInfo, msg |-> msg,
                                  parts |-> sendMessage(connectionInfo, msg)])
       ELSE \* createHmac or socket.send threw: nothing is sent
            UNCHANGED wire
    /\ UNCHANGED <<ver, connectionInfo, sockets, isConnected, outputCallbacks,
                   completionCallbacks, iopubListenerRunning, iopubListenerPromise,
                   stdinListenerRunning, stdinListenerPromise, statusCallback,
                   lastStatus, socks, loops, reqs, nMsgs, discPc, discAwait,
                   discDone, connCall, lastExec, lastInterrupt, ctrlSent,
                   statusLog, nDropped, quota>>
    /\ UNCHANGED <<mgrVars, extVars, currentState>>

\* the input_reply the stdin handler builds from the user's answer
InputReply == createMessage(<<5>>, <<6>>, <<1>>)

\* an input_request arrives on the stdin socket of loop l: handleMessage()
\* opens the quick pick or the input box and awaits it; the `for await` of
\* the loop awaits handleMessage()
InputRequest(l) ==
    /\ l \in 1..Len(loops)
    /\ loops[l].chan = "stdin"
    /\ loops[l].st = "running"
    /\ socks[loops[l].sock] = "connected"
    /\ Len(wire) < MaxFrames
    /\ loops' = [loops EXCEPT ![l].st = "prompting"]
    /\ UNCHANGED <<ver, connectionInfo, sockets, isConnected, outputCallbacks,
                   completionCallbacks, iopubListenerRunning, iopubListenerPromise,
                   stdinListenerRunning, stdinListenerPromise, statusCallback,
                   lastStatus, socks, reqs, nMsgs, discPc, discAwait,
                   discDone, connCall, lastExec, lastInterrupt, ctrlSent,
                   statusLog, nDropped, wire, quota>>
    /\ UNCHANGED <<mgrVars, extVars, currentState>>

\* the user answers or dismisses the dialog: handleMessage() sends the
\* input_reply on this.stdinSocket (a failure is caught and logged) and the
\* loop goes on to its next iteration
InputAnswered(l) ==
    /\ l \in 1..Len(loops)
    /\ loops[l].st = "prompting"
    /\ loops' = [loops EXCEPT ![l].st = "running"]
    /\ IF /\ connectionInfo # <<>>
          /\ Algorithm(connectionInfo[1].signature_scheme) \in KnownAlgorithms
          /\ stdinSocket # 0
          /\ socks[stdinSocket] = "connected"
       THEN wire' = Append(wire, [ch |-> "stdin", info |-> connectionInfo, msg |-> InputReply,
                                  parts |-> sendMessage(connectionInfo, InputReply)])
       ELSE \* createHmac or socket.send threw: nothing is sent
            UNCHANGED wire
    /\ UNCHANGED <<ver, connectionInfo, sockets, isConnected, outputCallbacks,
                   completionCallbacks, iopubListenerRunning, iopubListenerPromise,
                   stdinListenerRunning, stdinListenerPromise, statusCallback,
                   lastStatus, socks, reqs, nMsgs, discPc, discAwait,
                   discDone, connCall, lastExec, lastInterrupt, ctrlSent,
                   statusLog, nDropped, quota>>
    /\ UNCHANGED <<mgrVars, extVars, currentState>>

\* the guard of the timeout callback
TimeoutGuardNone(r) == TRUE
TimeoutGuard(r) == r \in completionCallbacks

\* the configured execution timeout elapses for request r; only revision 1
\* has registered a timer for it
ExecutionTimeoutElapses(r) ==
    /\ r \in 1..Len(reqs)
    /\ reqs[r].deadline = "pending"
    \* a timer callback is a task of its own: it cannot run between the
    \* `await socket.close()` steps of disconnect(), which resume as microtasks
    /\ discPc \in {"none", "waitIopub", "waitStdin"}
    /\ IF ver = 1 /\ TimeoutGuard(r)
       THEN /\ outputCallbacks' = outputCallbacks \ {r}
            /\ completionCallbacks' = completionCallbacks \ {r}
            /\ reqs' = [reqs EXCEPT ![r] =
                          [Settle(@, "rejected", "timeout")
                             EXCEPT !.deadline = "passed",
                                    !.timeoutFired = @ + 1]]
       ELSE /\ reqs' = [reqs EXCEPT ![r].deadline = "passed"]
            /\ UNCHANGED <<outputCallbacks, completionCallbacks>>
    /\ UNCHANGED <<ver, connectionInfo, sockets, isConnected, iopubListenerRunning,
                   iopubListenerPromise, stdinListenerRunning, stdinListenerPromise,
                   statusCallback, lastStatus, socks, loops, nMsgs, discPc, discAwait,
                   discDone, connCall, lastExec, quota>>
    /\ UNCHANGED <<mgrVars, extVars, currentState, wire, lastInterrupt, ctrlSent, statusLog, nDropped>>

\* ------------------------------------------------------ iopub receive loop
MsgShapes ==
    {[ok |-> FALSE, type |-> "status", es |-> "idle", plain |-> FALSE],
     [ok |-> TRUE, type |-> "status", es |-> "busy", plain |-> FALSE],
     [ok |-> TRUE, type |-> "status", es |-> "idle", plain |-> FALSE],
     [ok |-> TRUE, type |-> "status", es |-> "starting", plain |-> FALSE],
     [ok |-> TRUE, type |-> "stream", es |-> "", plain |-> TRUE],
     [ok |-> TRUE, type |-> "execute_result", es |-> "", plain |-> TRUE],
     [ok |-> TRUE, type |-> "execute_result", es |-> "", plain |-> FALSE],
     [ok |-> TRUE, type |-> "display_data", es |-> "", plain |-> TRUE],
     [ok |-> TRUE, type |-> "error", es |-> "", plain |-> TRUE],
     [ok |-> TRUE, type |-> "execute_input", es |-> "", plain |-> FALSE]}

\* a message with parent_header.msg_id = parent (0: no or an unknown id)
Msg(shape, parent) ==
    [ok |-> shape.ok, type |-> shape.type, es |-> shape.es, plain |-> shape.plain,
     parent |-> parent]

\* this.outputCallbacks.get(parentMsgId): the request whose callback is found, 0 if none
CallbackForAny(parentMsgId) ==
    IF outputCallbacks # {} THEN CHOOSE r \in outputCallbacks : \A q \in outputCallbacks : r <= q
    ELSE 0
CallbackFor(parentMsgId) ==
    IF parentMsgId \in outputCallbacks THEN parentMsgId ELSE 0

\* the branches that invoke callback(...)
InvokesCallbackNoError(m) ==
    \/ m.type = "stream"
    \/ m.type \in {"execute_result", "display_data"} /\ m.plain
InvokesCallback(m) ==
    \/ m.type = "stream"
    \/ m.type \in {"execute_result", "display_data"} /\ m.plain
    \/ m.type = "error"

\* the string handed to callback(...): content.text, data["text/plain"], or
\* "Error: ename: evalue" followed by the traceback
OutputText(m) ==
    IF m.type = "stream" THEN "text"
    ELSE IF m.type = "error" THEN "Error"
    ELSE "text/plain"

IsIdle(m) == m.type = "status" /\ m.es = "idle"

\* the status branch: is this.statusCallback(executionState) called?
PublishesStatusForRequest(m) ==
    /\ m.type = "status" /\ statusCallback /\ m.es \in {"busy", "idle"}
    /\ m.parent \in completionCallbacks
PublishesStatus(m) ==
    m.type = "status" /\ statusCallback /\ m.es \in {"busy", "idle"}

\* is the completion branch reached?  Revision 1 nests it in `if (callback)`
CompletionReached(v, found, m) ==
    IF v = 1 THEN found /\ IsIdle(m) ELSE IsIdle(m)

\* this.outputCallbacks.delete(parentMsgId) of the completion branch
KeepOutputCallback(cbs, parentMsgId) == cbs
DeleteOutputCallback(cbs, parentMsgId) == cbs \ {parentMsgId}

\* this.completionCallbacks.delete(parentMsgId)
KeepCompletionCallback(cbs, parentMsgId) == cbs
DeleteCompletionCallback(cbs, parentMsgId) == cbs \ {parentMsgId}

\* the three JSON.parse calls in front of the handler succeed
ParsedAlways(m) == TRUE
Parsed(m) == m.ok

ProcessIopub(l, m) ==
    LET n == nMsgs + 1
        p == m.parent
        target == CallbackFor(p)
        found == target # 0
        invoke == found /\ InvokesCallback(m)
        reached == CompletionReached(ver, found, m)
        fire == reached /\ p \in completionCallbacks
        \* revision 1 deletes the output callback whenever the branch is reached,
        \* revision 2 only next to the completion callback
        delOut == IF ver = 1 THEN reached ELSE fire
    IN
    /\ l \in 1..Len(loops)
    /\ loops[l].chan = "iopub"
    /\ loops[l].st = "running"
    /\ socks[loops[l].sock] = "connected"
    /\ nMsgs < quota.msg
    /\ nMsgs' = n
    /\ IF ~Parsed(m)
       THEN \* JSON.parse threw: logged, the message is dropped
            /\ nDropped' = nDropped + 1
            /\ UNCHANGED <<lastStatus, statusLog, outputCallbacks, completionCallbacks, reqs>>
       ELSE /\ lastStatus' = IF PublishesStatus(m) THEN m.es ELSE lastStatus
            /\ statusLog' = IF PublishesStatus(m)
                            THEN Append(statusLog, [pos |-> n, es |-> m.es]) ELSE statusLog
            /\ nDropped' = nDropped
            /\ outputCallbacks' = IF delOut THEN DeleteOutputCallback(outputCallbacks, p)
                                  ELSE outputCallbacks
            /\ completionCallbacks' = IF fire THEN DeleteCompletionCallback(completionCallbacks, p)
                                      ELSE completionCallbacks
            /\ reqs' = [r \in 1..Len(reqs) |->
                  LET q == reqs[r]
                      q1 == IF r = p /\ fire THEN Settle(q, "resolved", "") ELSE q
                  IN  [q1 EXCEPT
                         !.outLog = IF r = target /\ invoke
                                    THEN Append(@, [pos |-> n, parent |-> p,
                                                     text |-> IF quota.text
                                                              THEN OutputText(m) ELSE ""])
                                    ELSE @,
                         !.idleFired = IF r = p /\ fire THEN @ + 1 ELSE @,
                         !.donePos = IF r = p /\ fire /\ @ = 0 THEN n ELSE @,
                         !.idleSeen = @ \/ (r = p /\ IsIdle(m) /\ isConnected
                                              /\ q.fut = "pending" /\ ~q.cleared)]]
    /\ UNCHANGED <<ver, connectionInfo, sockets, isConnected, iopubListenerRunning,
                   iopubListenerPromise, stdinListenerRunning, stdinListenerPromise,
                   statusCallback, socks, loops, discPc, discAwait, discDone,
                   connCall, lastExec, quota>>
    /\ UNCHANGED <<mgrVars, wire, lastInterrupt, ctrlSent>>

\* a message arrives on the iopub socket of loop l
IopubMessage(l, m) == ProcessIopub(l, m) /\ UNCHANGED <<extVars, currentState>>

\* ---------------------------------------------------------- KernelManager
ManagerFields ==
    /\ kernelProcess = 0
    /\ connectionFile = 0
    /\ procs = <<>>
    /\ starts = <<>>
    /\ stops = <<>>
    /\ restarts = <<>>
    /\ calls = 0
    /\ interruptTimeoutHandle = 0
    /\ statusCheckCallback = FALSE
    /\ checks = <<>>
    /\ lastOp = "none"

ManagerInit == ManagerFields /\ mquota = [calls |-> MaxCalls, ints |-> 0, awaited |-> FALSE]

\* cp.spawn(): a live process that has printed nothing and received nothing
NewProc == [st |-> "alive", killed |-> FALSE, shutdown |-> FALSE, printed |-> FALSE]

\* ChildProcess.kill(): the signal is sent (and .killed set) only to a process
\* that has not exited; 0 stands for `if (this.kernelProcess)` being false
Kill(ps, p) ==
    IF p # 0 /\ ps[p].st = "alive" THEN [ps EXCEPT ![p].killed = TRUE] ELSE ps

\* the body of startKernel() up to its first await: the already-running guard
StartRecordUnguarded ==
    [pc |-> "deps", res |-> "", proc |-> 0, postRunning |-> FALSE, exitSeen |-> FALSE]
StartRecord ==
    IF kernelProcess # 0
    THEN [pc |-> "done", res |-> "noop", proc |-> 0, postRunning |-> TRUE, exitSeen |-> FALSE]
    ELSE [pc |-> "deps", res |-> "", proc |-> 0, postRunning |-> FALSE, exitSeen |-> FALSE]

\* startKernel() up to its first await
BeginStart ==
    /\ calls < mquota.calls
    /\ calls' = calls + 1
    /\ starts' = Append(starts, StartRecord)
    /\ UNCHANGED <<kernelProcess, connectionFile, procs, stops, restarts>>
    /\ lastOp' = IF mquota.awaited THEN "start" ELSE lastOp
    /\ UNCHANGED <<interruptTimeoutHandle, statusCheckCallback, checks, mquota>>

startKernel == BeginStart /\ UNCHANGED <<clientVars, extVars, currentState>>

\* startKernel() resumes after checkDependencies() (and the install prompt):
\* depsOk FALSE throws outside the try block; otherwise the process is
\* spawned and waitForConnectionFile() installs its listeners and timer
StartSpawn(a, depsOk) ==
    /\ a \in 1..Len(starts)
    /\ starts[a].pc = "deps"
    /\ IF depsOk
       THEN /\ procs' = Append(procs, NewProc)
            /\ kernelProcess' = Len(procs) + 1
            /\ starts' = [starts EXCEPT ![a].pc = "waiting", ![a].proc = Len(procs) + 1]
       ELSE /\ starts' = [starts EXCEPT ![a].pc = "done", ![a].res = "depsError",
                                        ![a].postRunning = kernelProcess # 0]
            /\ UNCHANGED <<procs, kernelProcess>>
    /\ UNCHANGED <<connectionFile, stops, restarts, calls>>
    /\ UNCHANGED <<interruptTimeoutHandle, statusCheckCallback, checks, lastOp, mquota>>
    /\ UNCHANGED <<clientVars, extVars, currentState>>

\* the catch block of startKernel(): kill whatever this.kernelProcess
\* references now, clear the handle, rethrow
FailStarts(ss, failing, res) ==
    [a \in 1..Len(ss) |->
        IF a \in failing
        THEN [ss[a] EXCEPT !.pc = "done", !.res = res, !.postRunning = FALSE]
        ELSE ss[a]]

\* the process writes the path of its connection file to stdout or stderr:
\* the data listener matches it, stores it and resolves the waiting start
ProcPrint(p) ==
    /\ p \in 1..Len(procs)
    /\ procs[p].st = "alive"
    /\ ~procs[p].printed
    /\ procs' = [procs EXCEPT ![p].printed = TRUE]
    /\ connectionFile' = p
    /\ starts' = [a \in 1..Len(starts) |->
                    IF starts[a].pc = "waiting" /\ starts[a].proc = p
                    THEN [starts[a] EXCEPT !.pc = "done", !.res = "ok",
                                           !.postRunning = kernelProcess # 0]
                    ELSE starts[a]]
    /\ UNCHANGED <<kernelProcess, stops, restarts, calls>>
    /\ UNCHANGED <<interruptTimeoutHandle, statusCheckCallback, checks, lastOp, mquota>>
    /\ UNCHANGED <<clientVars, extVars, currentState>>

\* the timer of waitForConnectionFile() fires while start a still waits
StartTimeout(a) ==
    /\ a \in 1..Len(starts)
    /\ starts[a].pc = "waiting"
    /\ procs' = Kill(procs, kernelProcess)
    /\ kernelProcess' = 0
    /\ starts' = FailStarts(starts, {a}, "timeout")
    /\ UNCHANGED <<connectionFile, stops, restarts, calls>>
    /\ UNCHANGED <<interruptTimeoutHandle, statusCheckCallback, checks, lastOp, mquota>>
    /\ UNCHANGED <<clientVars, extVars, currentState>>

\* clearTimeout(this.interruptTimeoutHandle): a timer that has not fired never will
KeepCheck(cs, h) == cs
ClearCheck(cs, h) ==
    IF h # 0 /\ cs[h].st = "pending" THEN [cs EXCEPT ![h].st = "cleared"] ELSE cs

\* this.connectionFile = null at the end of stopKernel()
StoppedFileKept == connectionFile
StoppedFile == 0

\* which of the two promises handed to Promise.race settle stopKernel()
OnlyExitSettles(event) == event = "exit"
RaceSettles(event) == event \in {"exit", "maxWait"}

\* the body of stopKernel() up to the race
StopRecord ==
    IF kernelProcess = 0
    THEN [pc |-> "done", res |-> "noop", proc |-> 0, killTimer |-> "none",
          maxTimer |-> "none", postRunning |-> FALSE, postFile |-> connectionFile]
    ELSE [pc |-> "racing", res |-> "", proc |-> kernelProcess, killTimer |-> "pending",
          maxTimer |-> "pending", postRunning |-> TRUE, postFile |-> connectionFile]

\* stdin.write("SHUTDOWN\n") reaches a process that is still there
WriteShutdown(ps, p) ==
    IF p # 0 /\ ps[p].st = "alive" THEN [ps EXCEPT ![p].shutdown = TRUE] ELSE ps

\* stopKernel() up to the race
BeginStop ==
    /\ calls < mquota.calls
    /\ calls' = calls + 1
    /\ stops' = Append(stops, StopRecord)
    /\ procs' = WriteShutdown(procs, kernelProcess)
    /\ UNCHANGED <<kernelProcess, connectionFile, starts, restarts>>
    /\ lastOp' = IF mquota.awaited THEN "stop" ELSE lastOp
    /\ UNCHANGED <<interruptTimeoutHandle, statusCheckCallback, checks, mquota>>

stopKernel == BeginStop /\ UNCHANGED <<clientVars, extVars, currentState>>

\* SIGTERM_DELAY_MS elapsed: the nudge
KillTimerFire(s) ==
    /\ s \in 1..Len(stops)
    /\ stops[s].killTimer = "pending"
    /\ stops' = [stops EXCEPT ![s].killTimer = "fired"]
    /\ procs' = IF procs[stops[s].proc].killed THEN procs ELSE Kill(procs, stops[s].proc)
    /\ UNCHANGED <<kernelProcess, connectionFile, starts, restarts, calls>>
    /\ UNCHANGED <<interruptTimeoutHandle, statusCheckCallback, checks, lastOp, mquota>>
    /\ UNCHANGED <<clientVars, extVars, currentState>>

\* clearTimeout(killTimeout) behind the race: a SIGTERM timer that has not
\* fired never will
KeepKillTimer(t) == t
ClearKillTimer(t) == IF t = "pending" THEN "cleared" ELSE t

\* stopKernel() behind the race: clearTimeout(killTimeout), clear the handle
\* and the connection file
FinishStops(ss, finishing) ==
    [s \in 1..Len(ss) |->
        IF s \in finishing
        THEN [ss[s] EXCEPT !.pc = "done", !.res = "stopped",
                           !.killTimer = ClearKillTimer(@),
                           !.postRunning = FALSE, !.postFile = 0]
        ELSE ss[s]]

\* MAX_WAIT_MS elapsed; set together with the SIGTERM timer, it fires after it
MaxTimerFire(s) ==
    /\ s \in 1..Len(stops)
    /\ stops[s].pc = "racing"
    /\ stops[s].maxTimer = "pending"
    /\ stops[s].killTimer # "pending"
    /\ IF RaceSettles("maxWait")
       THEN /\ stops' = [FinishStops(stops, {s}) EXCEPT ![s].maxTimer = "fired"]
            /\ kernelProcess' = 0
            /\ connectionFile' = StoppedFile
            /\ checks' = ClearCheck(checks, interruptTimeoutHandle)
            /\ interruptTimeoutHandle' = 0
       ELSE /\ stops' = [stops EXCEPT ![s].maxTimer = "fired"]
            /\ UNCHANGED <<kernelProcess, connectionFile, checks, interruptTimeoutHandle>>
    /\ UNCHANGED <<procs, starts, restarts, calls>>
    /\ UNCHANGED <<statusCheckCallback, lastOp, mquota>>
    /\ UNCHANGED <<clientVars, extVars, currentState>>

\* what the captured stderr contains when the process exits
NoStderr == [moduleNotFound |-> FALSE, zmq |-> FALSE, jupyterConsole |-> FALSE]
Stderr == [moduleNotFound : BOOLEAN, zmq : BOOLEAN, jupyterConsole : BOOLEAN]

\* the error the exit listener rejects with
ExitError(err) ==
    IF err.moduleNotFound
    THEN IF err.zmq THEN "missingPyzmq"
         ELSE IF err.jupyterConsole THEN "missingJupyterConsole"
         ELSE "exitError"
    ELSE "exitError"

\* does the exit listener reject for this exit code?  (code !== 0 && code !== null)
RejectsOnExit(nonzero) == nonzero

\* the process exits; nonzero: with an exit code other than 0 and null.
\* The exit listener of a waiting start rejects on a nonzero code; the exit
\* listener of every racing stop resolves its exitPromise.
ProcExit(p, nonzero, err) ==
    LET waiting == {a \in 1..Len(starts) : starts[a].pc = "waiting" /\ starts[a].proc = p}
        failing == IF RejectsOnExit(nonzero)
                   THEN {a \in 1..Len(starts) : starts[a].pc = "waiting" /\ starts[a].proc = p}
                   ELSE {}
        finishing == IF RaceSettles("exit")
                     THEN {s \in 1..Len(stops) : stops[s].pc = "racing" /\ stops[s].proc = p}
                     ELSE {}
        exited == [procs EXCEPT ![p].st = "exited"]
    IN
    /\ p \in 1..Len(procs)
    /\ procs[p].st = "alive"
    /\ procs' = IF failing # {} THEN Kill(exited, kernelProcess) ELSE exited
    /\ starts' = [a \in 1..Len(starts) |->
                    IF a \in waiting
                    THEN [FailStarts(starts, failing, ExitError(err))[a] EXCEPT !.exitSeen = TRUE]
                    ELSE starts[a]]
    /\ stops' = FinishStops(stops, finishing)
    /\ kernelProcess' = IF failing # {} \/ finishing # {} THEN 0 ELSE kernelProcess
    /\ connectionFile' = IF finishing # {} THEN StoppedFile ELSE connectionFile
    /\ checks' = IF finishing # {} THEN ClearCheck(checks, interruptTimeoutHandle) ELSE checks
    /\ interruptTimeoutHandle' = IF finishing # {} THEN 0 ELSE interruptTimeoutHandle
    /\ UNCHANGED <<restarts, calls>>
    /\ UNCHANGED <<statusCheckCallback, lastOp, mquota>>
    /\ UNCHANGED <<clientVars, extVars, currentState>>

\* restartKernel(): await this.stopKernel()
BeginRestart ==
    /\ calls < mquota.calls
    /\ calls' = calls + 1
    /\ stops' = Append(stops, StopRecord)
    /\ procs' = WriteShutdown(procs, kernelProcess)
    /\ restarts' = Append(restarts, [pc |-> "stopping", stop |-> Len(stops) + 1, start |-> 0])
    /\ UNCHANGED <<kernelProcess, connectionFile, starts>>
    /\ lastOp' = IF mquota.awaited THEN "restart" ELSE lastOp
    /\ UNCHANGED <<interruptTimeoutHandle, statusCheckCallback, checks, mquota>>

restartKernel == BeginRestart /\ UNCHANGED <<clientVars, extVars, currentState>>

\* restartKernel(): the stop has resolved and the settle delay has elapsed:
\* await this.startKernel()
RestartSettled(r) ==
    /\ r \in 1..Len(restarts)
    /\ restarts[r].pc = "stopping"
    /\ stops[restarts[r].stop].pc = "done"
    /\ starts' = Append(starts, StartRecord)
    /\ restarts' = [restarts EXCEPT ![r].pc = "starting", ![r].start = Len(starts) + 1]
    /\ UNCHANGED <<kernelProcess, connectionFile, procs, stops, calls>>
    /\ UNCHANGED <<interruptTimeoutHandle, statusCheckCallback, checks, lastOp, mquota>>
    /\ UNCHANGED <<clientVars, extVars, currentState>>

setStatusCheckCallback ==
    /\ ~statusCheckCallback
    /\ statusCheckCallback' = TRUE
    /\ UNCHANGED <<kernelProcess, connectionFile, procs, starts, stops, restarts, calls,
                   interruptTimeoutHandle, checks, lastOp, mquota>>
    /\ UNCHANGED <<clientVars, extVars, currentState>>

\* setTimeout(() => this.checkKernelStillBusy(), timeout)
NewCheck ==
    [proc |-> kernelProcess, st |-> "pending", registered |-> FALSE, consulted |-> 0,
     busy |-> FALSE, notified |-> FALSE]

\* if (this.interruptTimeoutHandle) { clearTimeout(...); ... = null }
CancelNone(cs) == cs
CancelPrevious(cs) == ClearCheck(cs, interruptTimeoutHandle)

\* interruptKernel(); writeOk: stdin.write("INTERRUPT\n") does not throw
WriteInterrupt(writeOk) ==
    /\ Len(checks) < mquota.ints
    /\ IF kernelProcess = 0
       THEN /\ writeOk
            /\ UNCHANGED <<checks, interruptTimeoutHandle>>
       ELSE IF writeOk
       THEN /\ checks' = Append(CancelPrevious(checks), NewCheck)
            /\ interruptTimeoutHandle' = Len(checks) + 1
       ELSE /\ checks' = CancelPrevious(checks)
            /\ interruptTimeoutHandle' = 0
    /\ UNCHANGED <<kernelProcess, connectionFile, procs, starts, stops, restarts, calls,
                   statusCheckCallback, lastOp, mquota>>

interruptKernel(writeOk) == WriteInterrupt(writeOk) /\ UNCHANGED <<clientVars, extVars, currentState>>

\* is the predicate there to be consulted?
ConsultsAlways == TRUE
Consults == statusCheckCallback

\* the grace period of check c elapses: checkKernelStillBusy(); isBusy is what
\* the registered predicate returns
checkKernelStillBusy(c, isBusy) ==
    /\ c \in 1..Len(checks)
    /\ checks[c].st = "pending"
    /\ IF Consults
       THEN checks' = [checks EXCEPT ![c].st = "fired",
                                     ![c].registered = statusCheckCallback,
                                     ![c].consulted = @ + 1,
                                     ![c].busy = isBusy,
                                     ![c].notified = isBusy]
       ELSE /\ ~isBusy
            /\ checks' = [checks EXCEPT ![c].st = "fired",
                                        ![c].registered = statusCheckCallback]
    /\ UNCHANGED <<kernelProcess, connectionFile, procs, starts, stops, restarts, calls,
                   interruptTimeoutHandle, statusCheckCallback, lastOp, mquota>>
    /\ UNCHANGED <<clientVars, extVars, currentState>>

cancelInterruptTimeout ==
    /\ checks' = ClearCheck(checks, interruptTimeoutHandle)
    /\ interruptTimeoutHandle' = 0
    /\ UNCHANGED <<kernelProcess, connectionFile, procs, starts, stops, restarts, calls,
                   statusCheckCallback, lastOp, mquota>>
    /\ UNCHANGED <<clientVars, extVars, currentState>>

\* the startKernel() and stopKernel() calls made by restartKernel() itself
InnerStarts == {restarts[r].start : r \in 1..Len(restarts)} \ {0}
InnerStops == {restarts[r].stop : r \in 1..Len(restarts)}

RestartInProgress(r) ==
    \/ restarts[r].pc = "stopping"
    \/ restarts[r].pc = "starting" /\ starts[restarts[r].start].pc # "done"

\* the lifecycle calls of the caller that have not returned yet
OpsInProgress ==
    Cardinality({a \in 1..Len(starts) : a \notin InnerStarts /\ starts[a].pc # "done"})
    + Cardinality({s \in 1..Len(stops) : s \notin InnerStops /\ stops[s].pc # "done"})
    + Cardinality({r \in 1..Len(restarts) : RestartInProgress(r)})

\* --------------------------------------------------------- status bar
\* StatusBarManager.setState
setState(state) == currentState' = state

\* the callback the start command registers with setStatusCallback():
\* busy shows Busy, idle shows Running
StatusBroadcast(l, m) ==
    /\ ProcessIopub(l, m)
    /\ UNCHANGED extVars
    /\ IF Parsed(m) /\ PublishesStatus(m)
       THEN setState(IF m.es = "busy" THEN "busy" ELSE "running")
       ELSE UNCHANGED currentState

\* the handler of jupyterConsole.interruptKernel: interrupt over the control
\* channel of a connected client, else through the supervisor; then the
\* state is set to Running unless the interrupt threw
interruptKernelCommand(ok) ==
    /\ UNCHANGED extVars
    /\ IF isConnected
       THEN /\ SendInterrupt(ok)
            /\ IF lastInterrupt' = "sent" THEN setState("running") ELSE UNCHANGED currentState
       ELSE /\ WriteInterrupt(ok)
            /\ setState("running")
            /\ UNCHANGED clientVars

isRunning == kernelProcess # 0

getConnectionFile == connectionFile

\* ------------------------------------------------- the command handlers
\* stop and restart commands, the two interpreter-change listeners (the one
\* inline in activate() and the one registered by
\* registerPythonInterpreterListener) and deactivate()
TeardownKinds == {"stop", "restart", "interpreter", "registered", "deactivate"}

NewHandler(kind, pc) ==
    [kind |-> kind, pc |-> pc, hadClient |-> kernelClient, wasRunning |-> isRunning,
     call |-> 0]

\* a start or restart handler is between its startKernel()/restartKernel()
\* call and its end
Connecting == \E h \in 1..Len(handlers) : handlers[h].pc \in {"starting", "connected"}

\* `await kernelClient.disconnect()`: the handler goes on once the promise
\* has resolved
DisconnectAwaited == discPc = "none"

\* a handler whose awaited disconnect() has resolved runs on before the next
\* command or event is dispatched
ResumePending ==
    \E h \in 1..Len(handlers) : handlers[h].pc = "disconnect" /\ DisconnectAwaited

\* the startKernel() or restartKernel() call of handler h has settled
Settled(h) ==
    IF handlers[h].kind = "start"
    THEN starts[handlers[h].call].pc = "done"
    ELSE /\ restarts[handlers[h].call].pc = "starting"
         /\ starts[restarts[handlers[h].call].start].pc = "done"

\* a handler whose awaited promise has settled runs on before the next
\* command or event is dispatched
ContinuationReady ==
    \/ ResumePending
    \/ \E h \in 1..Len(handlers) : handlers[h].pc = "starting" /\ Settled(h)
    \/ \E h \in 1..Len(handlers) : handlers[h].pc = "connected"

\* a command or event is a task of its own: it is not dispatched between
\* the `await socket.close()` steps of disconnect()
Dispatchable == discPc \in {"none", "waitIopub", "waitStdin"} /\ ~ContinuationReady

\* no disconnect() is in flight and no handler waits for one
NoDisconnectInFlight ==
    /\ discPc = "none"
    /\ \A h \in 1..Len(handlers) : handlers[h].pc # "disconnect"

\* the handler of jupyterConsole.startKernel up to `await startKernel()`;
\* it does not look at kernelClient. The command is followed here when no
\* other handler is about to create a client and no disconnect() is in
\* flight.
startKernelCommand ==
    /\ Len(handlers) < MaxHandlers
    /\ NoDisconnectInFlight
    /\ ~Connecting
    /\ ~ContinuationReady
    /\ BeginStart
    /\ setState("starting")
    /\ handlers' = Append(handlers, [NewHandler("start", "starting") EXCEPT
                                        !.call = Len(starts) + 1])
    /\ UNCHANGED <<clientVars, kernelClient>>

\* the call of handler h has settled by throwing
Threw(h) ==
    LET a == IF handlers[h].kind = "start" THEN handlers[h].call
             ELSE restarts[handlers[h].call].start
    IN  starts[a].res \notin {"ok", "noop"}

\* `kernelClient = new KernelClient(); await kernelClient.connect(file)`
\* with the connection file of a started kernel: connect() on an object
\* whose fields have their constructor values. An object referenced before
\* is dropped as it is: its sockets stay in socks and its loops in loops.
\* failAt # 0: the failAt-th socket.connect() throws and the catch block
\* closes the new sockets.
connectNewClient(failAt) ==
    LET n == Len(Channels(ver))
        base == Len(socks)
        fresh == NewSockets(ver, base)
        constructed == [i \in 1..(base + n) |->
                          IF i <= base THEN socks[i]
                          ELSE IF failAt = 0 \/ i - base < failAt THEN "connected"
                          ELSE "created"]
        loops1 == Append(loops, NewLoop("iopub", fresh["iopub"]))
        loops2 == IF ver = 2 THEN Append(loops1, NewLoop("stdin", fresh["stdin"])) ELSE loops1
    IN
    /\ discPc = "none"
    /\ failAt \in 0..n
    /\ base + n <= quota.conn * n
    /\ connectionInfo' = <<ValidDescriptor>>
    /\ discDone' = FALSE
    /\ outputCallbacks' = {}
    /\ completionCallbacks' = {}
    /\ statusCallback' = FALSE
    /\ lastStatus' = "none"
    /\ IF failAt # 0
       THEN /\ socks' = CloseAll(constructed, CleanupTargets(fresh))
            /\ sockets' = NoSockets
            /\ isConnected' = FALSE
            /\ connCall' = [desc |-> <<ValidDescriptor>>, res |-> "socketError",
                            created |-> Referenced(fresh)]
            /\ iopubListenerRunning' = FALSE
            /\ iopubListenerPromise' = 0
            /\ stdinListenerRunning' = FALSE
            /\ stdinListenerPromise' = 0
            /\ UNCHANGED loops
       ELSE /\ socks' = constructed
            /\ sockets' = fresh
            /\ isConnected' = TRUE
            /\ connCall' = [desc |-> <<ValidDescriptor>>, res |-> "ok",
                            created |-> Referenced(fresh)]
            /\ loops' = loops2
            /\ iopubListenerRunning' = TRUE
            /\ iopubListenerPromise' = Len(loops1)
            /\ stdinListenerRunning' = (ver = 2)
            /\ stdinListenerPromise' = IF ver = 2 THEN Len(loops2) ELSE 0
    /\ UNCHANGED <<ver, reqs, nMsgs, discPc, discAwait, lastExec, quota>>
    /\ UNCHANGED <<mgrVars, wire, lastInterrupt, ctrlSent, statusLog, nDropped>>

\* the start and restart handlers behind their await: with a connection
\* file, a new client is created and connected; the catch block shows
\* Stopped
StartResume(h, failAt) ==
    /\ h \in 1..Len(handlers)
    /\ handlers[h].pc = "starting"
    /\ Settled(h)
    /\ IF Threw(h)
       THEN /\ failAt = 0
            /\ setState("stopped")
            /\ handlers' = [handlers EXCEPT ![h].pc = "done"]
            /\ UNCHANGED <<clientVars, mgrVars, kernelClient>>
       ELSE IF getConnectionFile = 0
       THEN /\ failAt = 0
            /\ setState("running")
            /\ handlers' = [handlers EXCEPT ![h].pc = "done"]
            /\ UNCHANGED <<clientVars, mgrVars, kernelClient>>
       ELSE /\ connectNewClient(failAt)
            /\ kernelClient' = TRUE
            /\ IF failAt = 0
               THEN /\ handlers' = [handlers EXCEPT ![h].pc = "connected"]
                    /\ UNCHANGED currentState
               ELSE /\ handlers' = [handlers EXCEPT ![h].pc = "done"]
                    /\ setState("stopped")

\* ... behind `await kernelClient.connect()`: setStatusCallback(), the
\* consoles, Running
StartFinish(h) ==
    /\ h \in 1..Len(handlers)
    /\ handlers[h].pc = "connected"
    /\ StoreStatusCallback
    /\ setState("running")
    /\ handlers' = [handlers EXCEPT ![h].pc = "done"]
    /\ UNCHANGED kernelClient

\* what a teardown handler does once no client is referenced any more
TeardownBody(kind, wasRunning) ==
    IF kind = "stop"
    THEN BeginStop /\ setState("stopped")
    ELSE IF kind = "restart"
    THEN BeginRestart /\ setState("starting")
    ELSE /\ IF (IF kind = "registered" THEN wasRunning ELSE isRunning)
            THEN BeginStop
            ELSE UNCHANGED mgrVars
         /\ IF kind = "deactivate" THEN UNCHANGED currentState ELSE setState("stopped")

\* the handler record once TeardownBody has run
Finished(hd) ==
    [hd EXCEPT !.pc = IF hd.kind = "restart" THEN "starting" ELSE "done",
               !.call = IF hd.kind = "restart" THEN Len(restarts') ELSE 0]

\* a disconnect() call on a client whose disconnect() is suspended at the
\* await of a receive loop: the sockets are null already, it awaits the
\* same promises
disconnectAgain ==
    /\ isConnected' = FALSE
    /\ iopubListenerRunning' = FALSE
    /\ stdinListenerRunning' = FALSE
    /\ outputCallbacks' = Cleared(outputCallbacks)
    /\ completionCallbacks' = Cleared(completionCallbacks)
    /\ reqs' = MarkCleared(reqs)
    /\ UNCHANGED <<ver, connectionInfo, sockets, iopubListenerPromise, stdinListenerPromise,
                   statusCallback, lastStatus, socks, loops, nMsgs, discPc, discAwait,
                   discDone, connCall, lastExec, quota>>
    /\ UNCHANGED <<mgrVars, wire, lastInterrupt, ctrlSent, statusLog, nDropped>>

\* a teardown handler or listener starts: `if (kernelClient) { await
\* kernelClient.disconnect(); ... }`; without a client it runs to its end
\* (restart: to `await restartKernel()`)
TeardownCommand(kind) ==
    /\ Len(handlers) < MaxHandlers
    /\ Dispatchable
    /\ (kernelClient \/ kind = "restart") => ~Connecting
    /\ IF kernelClient
       THEN /\ IF discPc = "none" THEN disconnect ELSE disconnectAgain
            /\ handlers' = Append(handlers, NewHandler(kind, "disconnect"))
            /\ UNCHANGED <<kernelClient, currentState>>
       ELSE /\ TeardownBody(kind, isRunning)
            /\ handlers' = Append(handlers, Finished(NewHandler(kind, "")))
            /\ UNCHANGED <<clientVars, kernelClient>>

\* ... behind `await kernelClient.disconnect()`: kernelClient = null, then
\* stopKernel() or restartKernel()
TeardownResume(h) ==
    /\ h \in 1..Len(handlers)
    /\ handlers[h].pc = "disconnect"
    /\ DisconnectAwaited
    /\ kernelClient' = FALSE
    /\ TeardownBody(handlers[h].kind, handlers[h].wasRunning)
    /\ handlers' = [handlers EXCEPT ![h] = Finished(@)]
    /\ UNCHANGED clientVars

\* ---------------------------------------------------------- specification
\* executeCode and the receive loop on one connection
Init == StatusBarInit /\ ExtensionInit /\ ClientInit([conn |-> 1, req |-> MaxReq, msg |-> MaxMsgs, text |-> FALSE]) /\ ManagerInit

Next ==
    \/ Connect(ValidDescriptor, "object", 0)
    \/ DisconnectCall
    \/ DisconnectResume
    \/ \E l \in 1..Len(loops) : LoopExit(l)
    \/ \E hasOut \in BOOLEAN, sendOk \in BOOLEAN : ExecuteCode(hasOut, sendOk)
    \/ \E r \in 1..MaxReq : ExecutionTimeoutElapses(r)
    \/ \E l \in 1..Len(loops), s \in MsgShapes, p \in 0..Len(reqs) : IopubMessage(l, Msg(s, p))

Spec == Init /\ [][Next]_vars


\* connect and disconnect over every descriptor shape, on up to MaxConnects connections
InitConnect == StatusBarInit /\ ExtensionInit /\ ClientInit([conn |-> MaxConnects, req |-> 1, msg |-> 1, text |-> FALSE]) /\ ManagerInit

NextConnect ==
    \/ \E d \in AllDescriptors, o \in ConnectOutcomes, k \in 0..4 : Connect(d, o, k)
    \/ DisconnectCall
    \/ DisconnectResume
    \/ \E l \in 1..Len(loops) : LoopExit(l)

SpecConnect == InitConnect /\ [][NextConnect]_vars

\* interrupt() before, during and after up to MaxConnects connections
InitInterrupt == StatusBarInit /\ ExtensionInit /\ ClientInit([conn |-> MaxConnects, req |-> 0, msg |-> 0, text |-> FALSE]) /\ ManagerInit

NextInterrupt ==
    \/ \E d \in FewDescriptors, k \in 0..1 : Connect(d, "object", k)
    \/ DisconnectCall
    \/ DisconnectResume
    \/ \E l \in 1..Len(loops) : LoopExit(l)
    \/ \E sendOk \in BOOLEAN : Interrupt(sendOk)

SpecInterrupt == InitInterrupt /\ [][NextInterrupt]_vars

\* the receive loop with a status callback, one request on one connection
InitIopub == StatusBarInit /\ ExtensionInit /\ ClientInit([conn |-> 1, req |-> 1, msg |-> MaxMsgs + 1, text |-> FALSE]) /\ ManagerInit

NextIopub ==
    \/ setStatusCallback
    \/ Connect(ValidDescriptor, "object", 0)
    \/ DisconnectCall
    \/ DisconnectResume
    \/ \E l \in 1..Len(loops) : LoopExit(l)
    \/ \E hasOut \in BOOLEAN : ExecuteCode(hasOut, TRUE)
    \/ \E r \in 1..MaxReq : ExecutionTimeoutElapses(r)
    \/ \E l \in 1..Len(loops), s \in MsgShapes, p \in 0..Len(reqs) : IopubMessage(l, Msg(s, p))

SpecIopub == InitIopub /\ [][NextIopub]_vars

\* the supervisor alone, under up to MaxCalls overlapping lifecycle calls
InitManager == StatusBarInit /\ ExtensionInit /\ ClientInit([conn |-> 0, req |-> 0, msg |-> 0, text |-> FALSE]) /\ ver = 2 /\ ManagerInit

NextManager ==
    \/ startKernel
    \/ \E a \in 1..Len(starts), depsOk \in BOOLEAN : StartSpawn(a, depsOk)
    \/ \E p \in 1..Len(procs) : ProcPrint(p)
    \/ \E a \in 1..Len(starts) : StartTimeout(a)
    \/ stopKernel
    \/ \E s \in 1..Len(stops) : KillTimerFire(s)
    \/ \E s \in 1..Len(stops) : MaxTimerFire(s)
    \/ \E p \in 1..Len(procs), nonzero \in BOOLEAN : ProcExit(p, nonzero, NoStderr)
    \/ restartKernel
    \/ \E r \in 1..Len(restarts) : RestartSettled(r)

SpecManager == InitManager /\ [][NextManager]_vars

\* connect, disconnect and connect again on one client, with executeCode
InitReconnect == StatusBarInit /\ ExtensionInit /\ ClientInit([conn |-> MaxConnects, req |-> 1, msg |-> 0, text |-> FALSE]) /\ ManagerInit

NextReconnect ==
    \/ Connect(ValidDescriptor, "object", 0)
    \/ DisconnectCall
    \/ DisconnectResume
    \/ \E l \in 1..Len(loops) : LoopExit(l)
    \/ \E hasOut \in BOOLEAN, sendOk \in BOOLEAN : ExecuteCode(hasOut, sendOk)
    \/ \E r \in 1..MaxReq : ExecutionTimeoutElapses(r)

SpecReconnect == InitReconnect /\ [][NextReconnect]_vars

\* the frames sent under descriptors with different keys and schemes
InitWire == StatusBarInit /\ ExtensionInit /\ ClientInit([conn |-> 1, req |-> 0, msg |-> 0, text |-> FALSE]) /\ ManagerInit

NextWire ==
    \/ \E d \in WireDescriptors, o \in {"object", "nullJson", "parseError"} : Connect(d, o, 0)
    \/ DisconnectCall
    \/ DisconnectResume
    \/ \E l \in 1..Len(loops) : LoopExit(l)
    \/ \E ch \in {"shell", "control", "stdin"}, msg \in WireMessages : SendFrame(ch, msg)

SpecWire == InitWire /\ [][NextWire]_vars

\* the status bar of a client with the status callback of the start command
InitStatusBar ==
    /\ StatusBarInit /\ ExtensionInit /\ ClientInit([conn |-> 1, req |-> 1, msg |-> MaxMsgs, text |-> FALSE]) /\ ManagerFields
    /\ mquota = [calls |-> 0, ints |-> MaxInterrupts, awaited |-> FALSE]

NextStatusBar ==
    \/ setStatusCallback
    \/ Connect(ValidDescriptor, "object", 0)
    \/ DisconnectCall
    \/ DisconnectResume
    \/ \E l \in 1..Len(loops) : LoopExit(l)
    \/ \E hasOut \in BOOLEAN : ExecuteCode(hasOut, TRUE)
    \/ \E r \in 1..MaxReq : ExecutionTimeoutElapses(r)
    \/ \E l \in 1..Len(loops), sh \in MsgShapes, p \in 0..Len(reqs) : StatusBroadcast(l, Msg(sh, p))
    \/ \E ok \in BOOLEAN : interruptKernelCommand(ok)

SpecStatusBar == InitStatusBar /\ [][NextStatusBar]_vars

\* the supervisor with every stderr content at exit
InitExit == StatusBarInit /\ ExtensionInit /\ ClientInit([conn |-> 0, req |-> 0, msg |-> 0, text |-> FALSE]) /\ ver = 2 /\ ManagerInit

NextExit ==
    \/ startKernel
    \/ \E a \in 1..Len(starts), depsOk \in BOOLEAN : StartSpawn(a, depsOk)
    \/ \E p \in 1..Len(procs) : ProcPrint(p)
    \/ \E a \in 1..Len(starts) : StartTimeout(a)
    \/ \E p \in 1..Len(procs), nonzero \in BOOLEAN, err \in Stderr : ProcExit(p, nonzero, err)

SpecExit == InitExit /\ [][NextExit]_vars

\* the supervisor with interrupts and their delayed checks
InitCheck ==
    /\ StatusBarInit /\ ExtensionInit /\ ClientInit([conn |-> 0, req |-> 0, msg |-> 0, text |-> FALSE]) /\ ver = 2
    /\ ManagerFields
    /\ mquota = [calls |-> MaxCalls, ints |-> MaxInterrupts, awaited |-> FALSE]

NextCheck ==
    \/ startKernel
    \/ \E a \in 1..Len(starts) : StartSpawn(a, TRUE)
    \/ \E p \in 1..Len(procs) : ProcPrint(p)
    \/ stopKernel
    \/ \E s \in 1..Len(stops) : KillTimerFire(s)
    \/ \E s \in 1..Len(stops) : MaxTimerFire(s)
    \/ \E p \in 1..Len(procs) : ProcExit(p, FALSE, NoStderr)
    \/ setStatusCheckCallback
    \/ \E writeOk \in BOOLEAN : interruptKernel(writeOk)
    \/ \E c \in 1..Len(checks), isBusy \in BOOLEAN : checkKernelStillBusy(c, isBusy)
    \/ cancelInterruptTimeout

SpecCheck == InitCheck /\ [][NextCheck]_vars

\* the supervisor driven by a caller that awaits every call before the next
InitAwaited ==
    /\ StatusBarInit /\ ExtensionInit /\ ClientInit([conn |-> 0, req |-> 0, msg |-> 0, text |-> FALSE]) /\ ver = 2
    /\ ManagerFields
    /\ mquota = [calls |-> MaxAwaited, ints |-> MaxAwaitedInterrupts, awaited |-> TRUE]

NextAwaited ==
    \/ OpsInProgress = 0 /\ startKernel
    \/ OpsInProgress = 0 /\ stopKernel
    \/ OpsInProgress = 0 /\ restartKernel
    \/ OpsInProgress = 0 /\ \E writeOk \in BOOLEAN : interruptKernel(writeOk)
    \/ \E a \in 1..Len(starts), depsOk \in BOOLEAN : StartSpawn(a, depsOk)
    \/ \E p \in 1..Len(procs) : ProcPrint(p)
    \/ \E a \in 1..Len(starts) : StartTimeout(a)
    \/ \E s \in 1..Len(stops) : KillTimerFire(s)
    \/ \E s \in 1..Len(stops) : MaxTimerFire(s)
    \/ \E p \in 1..Len(procs), nonzero \in BOOLEAN : ProcExit(p, nonzero, NoStderr)
    \/ \E r \in 1..Len(restarts) : RestartSettled(r)

SpecAwaited == InitAwaited /\ [][NextAwaited]_vars

\* executeCode() and interrupt() around connects that succeed or fail and
\* around disconnects
InitConnectivity ==
    StatusBarInit /\ ExtensionInit /\ ClientInit([conn |-> MaxConnects, req |-> 1, msg |-> 0, text |-> FALSE]) /\ ManagerInit

NextConnectivity ==
    \/ \E d \in FewDescriptors, k \in 0..1 : Connect(d, "object", k)
    \/ DisconnectCall
    \/ DisconnectResume
    \/ \E l \in 1..Len(loops) : LoopExit(l)
    \/ \E hasOut \in BOOLEAN, sendOk \in BOOLEAN : ExecuteCode(hasOut, sendOk)
    \/ \E sendOk \in BOOLEAN : Interrupt(sendOk)

SpecConnectivity == InitConnectivity /\ [][NextConnectivity]_vars

\* the receive loop with the texts handed to the output callbacks
InitOutput ==
    /\ StatusBarInit /\ ExtensionInit /\ ManagerInit
    /\ ClientInit([conn |-> 1, req |-> 1, msg |-> MaxMsgs + 1, text |-> TRUE])

NextOutput ==
    \/ Connect(ValidDescriptor, "object", 0)
    \/ DisconnectCall
    \/ DisconnectResume
    \/ \E l \in 1..Len(loops) : LoopExit(l)
    \/ \E hasOut \in BOOLEAN : ExecuteCode(hasOut, TRUE)
    \/ \E r \in 1..MaxReq : ExecutionTimeoutElapses(r)
    \/ \E l \in 1..Len(loops), s \in MsgShapes, p \in 0..Len(reqs) : IopubMessage(l, Msg(s, p))

SpecOutput == InitOutput /\ [][NextOutput]_vars

\* executeCode() over different code strings and display preferences
InitRequest ==
    /\ StatusBarInit /\ ExtensionInit /\ ManagerInit
    /\ ClientInit([conn |-> 1, req |-> MaxReq, msg |-> 0, text |-> FALSE])

NextRequest ==
    \/ Connect(ValidDescriptor, "object", 0)
    \/ DisconnectCall
    \/ DisconnectResume
    \/ \E l \in 1..Len(loops) : LoopExit(l)
    \/ \E code \in Codes, enableOutputViewer \in BOOLEAN, hasOut \in BOOLEAN :
          executeCode(code, enableOutputViewer, hasOut, TRUE)
    \/ \E r \in 1..MaxReq : ExecutionTimeoutElapses(r)

SpecRequest == InitRequest /\ [][NextRequest]_vars

\* disconnect() with the receive loops of one connection, input requests
\* included.  The runtime resumes a continuation whose promise has settled
\* and ends a `for await` whose socket is closed; nothing obliges the kernel
\* to send or the user to answer.
InitTerminate ==
    /\ StatusBarInit /\ ExtensionInit /\ ManagerInit
    /\ ClientInit([conn |-> 1, req |-> 1, msg |-> 1, text |-> FALSE])

NextTerminate ==
    \/ \E d \in WireDescriptors : Connect(d, "object", 0)
    \/ DisconnectCall
    \/ DisconnectResume
    \/ \E l \in 1..Len(loops) : LoopExit(l)
    \/ \E hasOut \in BOOLEAN : ExecuteCode(hasOut, TRUE)
    \/ \E l \in 1..Len(loops), sh \in MsgShapes, p \in 0..Len(reqs) : IopubMessage(l, Msg(sh, p))
    \/ \E l \in 1..Len(loops) : InputRequest(l)
    \/ \E l \in 1..Len(loops) : InputAnswered(l)

SpecTerminate ==
    /\ InitTerminate /\ [][NextTerminate]_vars
    /\ WF_vars(DisconnectResume)
    /\ WF_vars(\E l \in 1..Len(loops) : LoopExit(l))

\* the command handlers and listeners of the extension over one kernel
\* client at a time
InitTeardown ==
    /\ StatusBarInit /\ ExtensionInit
    /\ ClientInit([conn |-> MaxHandlers, req |-> 0, msg |-> 0, text |-> FALSE])
    /\ ManagerFields
    /\ mquota = [calls |-> MaxHandlers, ints |-> 0, awaited |-> FALSE]

NextTeardown ==
    \/ startKernelCommand
    \/ \E h \in 1..Len(handlers), failAt \in 0..1 : StartResume(h, failAt)
    \/ \E h \in 1..Len(handlers) : StartFinish(h)
    \/ \E kind \in TeardownKinds : TeardownCommand(kind)
    \/ \E h \in 1..Len(handlers) : TeardownResume(h)
    \/ DisconnectResume
    \/ \E l \in 1..Len(loops) : LoopExit(l)
    \/ ~ContinuationReady /\ \E a \in 1..Len(starts), depsOk \in BOOLEAN : StartSpawn(a, depsOk)
    \/ ~ContinuationReady /\ \E p \in 1..Len(procs) : ProcPrint(p)
    \/ ~ContinuationReady /\ \E s \in 1..Len(stops) : KillTimerFire(s)
    \/ ~ContinuationReady /\ \E s \in 1..Len(stops) : MaxTimerFire(s)
    \/ ~ContinuationReady /\ \E p \in 1..Len(procs) : ProcExit(p, FALSE, NoStderr)
    \/ ~ContinuationReady /\ \E r \in 1..Len(restarts) : RestartSettled(r)

SpecTeardown == InitTeardown /\ [][NextTeardown]_vars

\* ================================================================ claims

\* C1: a request's registry entry is taken out by one path only: the completion
\* callback (idle status of its own msg_id) and the body of the timeout
\* callback never both run for the same request, neither runs twice, the entry
\* is gone afterwards, and the outcome of the future is the one of that path.
C1_RemovedOnce ==
    \A r \in 1..Len(reqs) :
        LET q == reqs[r] IN
        /\ q.idleFired + q.timeoutFired <= 1
        /\ q.idleFired + q.timeoutFired = 1 => r \notin completionCallbacks
        /\ q.fut = "resolved" => q.idleFired = 1
        /\ (q.fut = "rejected" /\ q.err = "timeout") => q.timeoutFired = 1

\* the timer of a request expires after its completion callback has run
C1_Witness ==
    \E r \in 1..Len(reqs) :
        ver = 1 /\ reqs[r].idleFired = 1 /\ reqs[r].deadline = "passed"

\* C2: on a connected client, once the idle status whose parent id is the
\* request's msg_id has been processed while the request was pending, the
\* future is resolved - whether or not an output callback was passed.
C2_IdleResolves ==
    \A r \in 1..Len(reqs) : reqs[r].idleSeen => reqs[r].fut = "resolved"

\* C3: once the execution timeout has elapsed for a request that was sent on a
\* connected client and saw no idle status, its entry is dropped and its
\* future is rejected with a timeout error.
C3_TimeoutRejects ==
    \A r \in 1..Len(reqs) :
        LET q == reqs[r] IN
        (q.deadline = "passed" /\ q.sendOk /\ ~q.idleSeen /\ ~q.cleared)
            => /\ q.fut = "rejected" /\ q.err = "timeout"
               /\ r \notin completionCallbacks
               /\ r \notin outputCallbacks

\* C4: no cross-talk between concurrent requests: every message handed to a
\* request's output callback has that request's msg_id as its parent id, the
\* completion callback of a request runs at most once, and a future is
\* resolved only by the idle status of its own msg_id.
C4_NoCrossTalk ==
    \A r \in 1..Len(reqs) :
        LET q == reqs[r] IN
        /\ \A i \in 1..Len(q.outLog) : q.outLog[i].parent = r
        /\ q.idleFired <= 1
        /\ q.fut = "resolved" <=> q.donePos > 0 /\ q.sendOk

\* two requests in flight: the later one completes first, the earlier one
\* still receives its own output
C4_Witness ==
    /\ Len(reqs) = 2
    /\ reqs[1].outLog # <<>>
    /\ reqs[1].fut = "pending"
    /\ reqs[2].fut = "resolved"

\* C5: the output callback of a request sees its messages in arrival order,
\* and none after the completion callback of that request has run.
C5_OutputBeforeCompletion ==
    \A r \in 1..Len(reqs) :
        LET q == reqs[r] IN
        /\ \A i, j \in 1..Len(q.outLog) : i < j => q.outLog[i].pos < q.outLog[j].pos
        /\ q.donePos > 0 => \A i \in 1..Len(q.outLog) : q.outLog[i].pos < q.donePos

\* a request that streamed output and then completed
C5_Witness ==
    \E r \in 1..Len(reqs) : reqs[r].outLog # <<>> /\ reqs[r].donePos > 0

\* C9: after a successful connect and a disconnect that has resolved, the
\* client is not connected, references no socket, and every socket that
\* connect opened is closed.
C9_DisconnectClosesAll ==
    (discDone /\ connCall.res = "ok")
        => /\ ~isConnected
           /\ sockets = NoSockets
           /\ \A k \in connCall.created : socks[k] = "closed"

C9_Witness ==
    discDone /\ connCall.res = "ok" /\ connCall.created # {}

\* the descriptor lacks a required field, or a port field is not a number in 1..65535
DescriptorInvalid(d) ==
    \/ \E f \in RequiredFields : f \notin d.fields
    \/ \E i \in 1..Len(PortFields) :
          LET v == d.ports[PortFields[i]]
          IN  ~(v.isNum /\ v.val >= 1 /\ v.val <= 65535)

\* C10: connect with such a descriptor rejects with a descriptor error, has
\* constructed no socket, and leaves the client not connected.
C10_InvalidDescriptorRejected ==
    (connCall.desc # <<>> /\ DescriptorInvalid(connCall.desc[1]))
        => /\ connCall.res \in {"missingFields", "invalidPort"}
           /\ connCall.created = {}
           /\ ~isConnected

\* a descriptor with a bad port is rejected on a client that was connected before
C10_Witness ==
    /\ connCall.res = "invalidPort"
    /\ socks # <<>>
    /\ ~isConnected


\* C6: at most one kernel process is live at any time, whatever the
\* interleaving of startKernel, stopKernel and restartKernel calls: no two
\* spawned processes are running at once with neither of them signalled to
\* terminate.
C6_OneLiveProcess ==
    Cardinality({p \in 1..Len(procs) : procs[p].st = "alive" /\ ~procs[p].killed}) <= 1

C8_TimeoutCleansUp ==
    \A a \in 1..Len(starts) :
        starts[a].res = "timeout"
            => /\ ~starts[a].postRunning
               /\ \/ procs[starts[a].proc].killed
                  \/ procs[starts[a].proc].st = "exited"

C12_NotConnectedRejects ==
    [][((connCall = NoCall \/ discDone)
          /\ \E hasOut \in BOOLEAN, sendOk \in BOOLEAN : ExecuteCode(hasOut, sendOk))
        => /\ lastExec' = "notConnected"
           /\ UNCHANGED <<reqs, outputCallbacks, completionCallbacks, socks>>]_vars

\* an executeCode() was rejected after the disconnect of a connection that
\* had carried a request
C12_Witness ==
    /\ lastExec = "notConnected"
    /\ discDone
    /\ discPc = "none"
    /\ Len(reqs) >= 1

\* C13: an interrupt() on a client that never connected, or on which
\* disconnect() has resolved, is rejected by the not-connected guard and sends
\* nothing on the control channel.
C13_InterruptNotConnected ==
    [][((connCall = NoCall \/ discDone)
          /\ \E sendOk \in BOOLEAN : Interrupt(sendOk))
        => /\ lastInterrupt' = "notConnected"
           /\ UNCHANGED <<ctrlSent, socks>>]_vars

\* an interrupt() was rejected after the disconnect of a connection on which
\* an interrupt request had been sent
C13_Witness ==
    /\ lastInterrupt = "notConnected"
    /\ discDone
    /\ discPc = "none"
    /\ ctrlSent # {}

\* C14: once disconnect() has resolved, every receive loop of the connection
\* has terminated, and from then on no output callback, completion callback or
\* status callback is invoked, whatever timer expires.
C14_QuietAfterDisconnect ==
    /\ [](discDone => \A l \in 1..Len(loops) : loops[l].st = "done")
    /\ [][discDone
            => /\ nMsgs' = nMsgs
               /\ statusLog' = statusLog
               /\ \A r \in 1..Len(reqs) :
                     /\ reqs'[r].outLog = reqs[r].outLog
                     /\ reqs'[r].idleFired = reqs[r].idleFired]_vars

\* disconnect() resolved on a connection that had published a status and
\* carried a request; the request's timer expired after its entry was cleared
C14_Witness ==
    /\ discDone
    /\ discPc = "none"
    /\ Len(loops) >= 1
    /\ statusLog # <<>>
    /\ \E r \in 1..Len(reqs) :
          ver = 1 /\ reqs[r].cleared /\ reqs[r].deadline = "passed" /\ reqs[r].fut = "pending"

\* C15: a request that was pending when disconnect() was called does not stay
\* pending: once disconnect() has resolved and the request's execution timeout
\* has elapsed, its future is settled.
C15_DisconnectSettles ==
    \A r \in 1..Len(reqs) :
        (reqs[r].cleared /\ discDone /\ reqs[r].deadline = "passed")
            => reqs[r].fut # "pending"

\* C16: while a status callback is registered, every well-formed iopub status
\* message with execution_state busy or idle invokes it once with that value,
\* behind all earlier invocations, whatever the parent id of the message and
\* whether or not a request is pending.
C16_StatusPublished ==
    /\ [](\A i, j \in 1..Len(statusLog) : i < j => statusLog[i].pos < statusLog[j].pos)
    /\ [][\A l \in 1..Len(loops), s \in MsgShapes, p \in 0..Len(reqs) :
            (/\ statusCallback
             /\ s.ok /\ s.type = "status" /\ s.es \in {"busy", "idle"}
             /\ IopubMessage(l, Msg(s, p)))
            => statusLog' = Append(statusLog, [pos |-> nMsgs + 1, es |-> s.es])]_vars

\* busy and idle were published, in that order, with no request registered
C16_Witness ==
    /\ Len(reqs) = 0
    /\ Len(statusLog) >= 2
    /\ statusLog[1].es = "busy"
    /\ statusLog[2].es = "idle"

\* C17: an iopub message whose header, parent header or content does not
\* parse is dropped: no callback is invoked, the callback maps and the
\* requests stay as they are, and the receive loop keeps running.
C17_MalformedDropped ==
    [][\A l \in 1..Len(loops), s \in MsgShapes, p \in 0..Len(reqs) :
          (~s.ok /\ IopubMessage(l, Msg(s, p)))
          => /\ UNCHANGED <<outputCallbacks, completionCallbacks, reqs, statusLog,
                            lastStatus, loops, socks>>
             /\ loops'[l].st = "running"]_vars

\* the first message was dropped and the second one reached an output callback
C17_Witness ==
    /\ nDropped = 1
    /\ nMsgs = 2
    /\ \E r \in 1..Len(reqs) :
          \E i \in 1..Len(reqs[r].outLog) : reqs[r].outLog[i].pos = 2

\* C18: a startKernel() issued while a kernel is running and a stopKernel()
\* issued while none is running return at once without an error, spawn and
\* signal nothing, and leave the process handle and the connection file as
\* they are.
C18_SoftNoOps ==
    [][/\ (kernelProcess # 0 /\ (startKernel \/ \E r \in 1..Len(restarts) : RestartSettled(r)))
            => /\ UNCHANGED <<kernelProcess, connectionFile, procs>>
               /\ starts'[Len(starts')].pc = "done"
               /\ starts'[Len(starts')].res = "noop"
       /\ (kernelProcess = 0 /\ (stopKernel \/ restartKernel))
            => /\ UNCHANGED <<kernelProcess, connectionFile, procs>>
               /\ stops'[Len(stops')].pc = "done"
               /\ stops'[Len(stops')].res = "noop"]_vars

\* a stopKernel() found no kernel, and later a startKernel() found one running
C18_Witness ==
    /\ \E s \in 1..Len(stops) : stops[s].res = "noop"
    /\ \E a \in 1..Len(starts) : starts[a].res = "noop" /\ kernelProcess # 0

\* C19: restartKernel() runs stop, settle delay, start in that order: its
\* startKernel() is only called once its stopKernel() has resolved, and when
\* that startKernel() has succeeded the kernel is running (isRunning() is
\* true) on the process it spawned, which has announced its connection file.
C19_RestartOrder ==
    \A r \in 1..Len(restarts) :
        LET a == restarts[r].start IN
        /\ a # 0 => stops[restarts[r].stop].pc = "done"
        /\ (a # 0 /\ starts[a].pc = "done" /\ starts[a].res = "ok")
              => /\ starts[a].postRunning
                 /\ procs[starts[a].proc].printed

\* C20: at no time are two lifecycle operations (startKernel, stopKernel,
\* restartKernel) in progress on the supervisor at once.
C20_NoOverlap == OpsInProgress <= 1

\* C21: the stored descriptor path is null whenever there is no process
\* handle: getConnectionFile() returns null whenever isRunning() is false.
C21_FileOnlyWhileRunning == ~isRunning => getConnectionFile = 0

\* C27: a kernel process that has exited, on its own after readiness or
\* through a stop, is no longer referenced by the handle.
C27_ExitedHasNoHandle ==
    \A p \in 1..Len(procs) :
        procs[p].st = "exited" /\ procs[p].printed => kernelProcess # p

\* C26: a start whose process exited while it was still waiting for the
\* descriptor path rejects with a process-exit error, not with the timeout
\* error, and isRunning() is false right after it.
ExitKinds == {"missingPyzmq", "missingJupyterConsole", "exitError"}
C26_ExitRejects ==
    \A a \in 1..Len(starts) :
        starts[a].exitSeen /\ starts[a].pc = "done"
            => starts[a].res \in ExitKinds /\ ~starts[a].postRunning

C24_CancelledNeverRuns ==
    /\ [](\A c \in 1..Len(checks) :
            checks[c].st = "cleared" => checks[c].consulted = 0 /\ ~checks[c].notified)
    /\ [][/\ \A c \in 1..Len(checks) : checks[c].st = "cleared" => checks'[c] = checks[c]
          /\ cancelInterruptTimeout =>
                /\ \A c \in 1..Len(checks) : checks'[c].st # "pending"
                /\ interruptTimeoutHandle' = 0
                /\ (\A c \in 1..Len(checks) : checks[c].st # "pending") => checks' = checks
         ]_vars

C24_Witness ==
    /\ interruptTimeoutHandle = 0
    /\ \E c \in 1..Len(checks) : checks[c].st = "cleared" /\ kernelProcess = checks[c].proc
    /\ \A s \in 1..Len(stops) : stops[s].res = "noop"

\* C25: at most one delayed check is pending at any time, it is the one the
\* latest interrupt scheduled and the one the handle refers to; every check
\* scheduled before it has been cancelled or has fired.
C25_OnePendingCheck ==
    /\ Cardinality({c \in 1..Len(checks) : checks[c].st = "pending"}) <= 1
    /\ \A c \in 1..Len(checks) :
          checks[c].st = "pending" => c = Len(checks) /\ c = interruptTimeoutHandle

C25_Witness ==
    /\ Len(checks) >= 2
    /\ checks[1].st = "cleared"
    /\ checks[2].st = "pending"
    /\ checks[1].proc = checks[2].proc

\* C22: when the caller awaits every call and every start has succeeded,
\* between calls isRunning() is true exactly when the last start, stop or
\* restart was a start or a restart, getConnectionFile() is non-null exactly
\* when isRunning() is true, and an interrupt changes neither.
AllStartsSucceeded ==
    \A a \in 1..Len(starts) : starts[a].pc = "done" => starts[a].res \in {"ok", "noop"}
C22_AwaitedCalls ==
    /\ [](OpsInProgress = 0 /\ AllStartsSucceeded
            => /\ isRunning <=> lastOp \in {"start", "restart"}
               /\ getConnectionFile # 0 <=> isRunning)
    /\ [][(\E writeOk \in BOOLEAN : interruptKernel(writeOk))
            => /\ isRunning' = isRunning
               /\ getConnectionFile' = getConnectionFile]_vars

C22_Witness ==
    /\ OpsInProgress = 0 /\ AllStartsSucceeded
    /\ lastOp = "stop" /\ calls = 3
    /\ \E s \in 1..Len(stops) : stops[s].res # "noop"
    /\ Len(checks) > 0
    /\ ~isRunning

\* C28: after a connect, a disconnect that resolved and a second connect on
\* the same client, the client reports connected, exactly one iopub receive
\* loop is running and it reads the iopub socket of the second connection,
\* and executeCode passes the not-connected guard and registers its request.
Reconnected ==
    /\ connCall.res = "ok"
    /\ isConnected
    /\ discPc = "none"
    /\ Len(socks) = 2 * Len(Channels(ver))
    /\ \A i \in 1..Len(Channels(ver)) : socks[i] = "closed"
RunningIopubLoops ==
    {l \in 1..Len(loops) : loops[l].chan = "iopub" /\ loops[l].st = "running"}
C28_ReconnectWorks ==
    /\ [](Reconnected
            => /\ isConnected
               /\ Cardinality(RunningIopubLoops) = 1
               /\ \A l \in RunningIopubLoops :
                     /\ loops[l].sock = sockets["iopub"]
                     /\ loops[l].sock > Len(Channels(ver))
                     /\ socks[loops[l].sock] = "connected"
               /\ ~NotConnected(shellSocket))
    /\ [][(Reconnected /\ \E hasOut \in BOOLEAN, sendOk \in BOOLEAN : ExecuteCode(hasOut, sendOk))
            => lastExec' = "registered" /\ Len(reqs') = Len(reqs) + 1]_vars

C28_Witness ==
    /\ Reconnected
    /\ lastExec = "registered"
    /\ Len(reqs) = 1
    /\ ~reqs[1].cleared

\* C29: every message handed to the socket is a six-part frame: delimiter,
\* hex signature, header, parent_header, metadata, content; the signature is
\* the keyed hash, with the scheme and key of the descriptor, of the four
\* serialized strings sent as parts three to six, in that order; equal
\* strings under the same scheme and key carry the same signature.
KeyedHashHex(scheme, key, str) == digestHex(update(createHmac(Algorithm(scheme), key), str))
C29_FramesSigned ==
    \A i \in 1..Len(wire) :
        LET f == wire[i].parts
            d == wire[i].info
            m == wire[i].msg
        IN  /\ Len(f) = 6
            /\ f[1] = Delimiter
            /\ d # <<>>
            /\ f[2] = KeyedHashHex(d[1].signature_scheme, d[1].key, f[3] \o f[4] \o f[5] \o f[6])
            /\ Len(f[2]) = 2
            /\ f[3] = Stringify(m.header)
            /\ f[4] = Stringify(m.parent_header)
            /\ f[5] = Stringify(m.metadata)
            /\ f[6] = Stringify(m.content)
            /\ \A j \in 1..Len(wire) :
                  (/\ wire[j].info = d
                   /\ \A k \in 3..6 : wire[j].parts[k] = f[k])
                  => wire[j].parts[2] = f[2]

C29_Witness ==
    /\ Len(wire) = 2
    /\ wire[1].info = wire[2].info
    /\ wire[1].msg # wire[2].msg
    /\ wire[1].parts[2] # wire[2].parts[2]
    /\ wire[2].ch = "stdin"

\* C30: while the client is connected and a status broadcast has been
\* published, the status bar shows Busy exactly when the last published
\* broadcast was busy, and Running when it was idle.
C30_StateFollowsStatus ==
    (isConnected /\ statusCallback /\ lastStatus # "none")
        => /\ currentState = "busy" <=> lastStatus = "busy"
           /\ currentState = "running" <=> lastStatus = "idle"

\* C32: the SIGTERM timer of a stopKernel() call fires at most once and only
\* while that call still waits for the exit event; when the exit event
\* settles the call first the timer is cleared, and a cleared timer never
\* fires; the signal goes only to a process that has not exited and has
\* not been signalled.
C32_TerminateOnce ==
    [][\A s \in 1..Len(stops) :
          LET fires == stops[s].killTimer = "pending" /\ stops'[s].killTimer = "fired"
              p == stops[s].proc
          IN  /\ stops[s].killTimer \in {"none", "fired", "cleared"}
                    => stops'[s].killTimer = stops[s].killTimer
              /\ fires => stops[s].pc = "racing"
              /\ (fires /\ procs'[p].killed /\ ~procs[p].killed)
                    => procs[p].st = "alive"
              /\ (fires /\ procs[p].killed) => procs' = procs
              /\ (stops[s].pc = "racing" /\ procs[p].st = "alive" /\ procs'[p].st = "exited")
                    => /\ stops'[s].pc = "done"
                       /\ stops'[s].killTimer \in {"fired", "cleared"}
                       /\ stops[s].killTimer = "pending" => stops'[s].killTimer = "cleared"
    ]_vars

C32_Witness ==
    \E s \in 1..Len(stops) :
        /\ stops[s].pc = "done"
        /\ stops[s].killTimer = "cleared"
        /\ procs[stops[s].proc].st = "exited"
        /\ ~procs[stops[s].proc].killed
        /\ procs[stops[s].proc].shutdown

\* C40: while a stopKernel() call on a running kernel has not completed, no
\* check that was pending surfaces the stuck-kernel notification, and a
\* completed stopKernel() leaves no check pending behind the handle.
C40_NoCheckDuringStop ==
    [][\A s \in 1..Len(stops) :
          /\ stops[s].pc = "racing"
                => \A c \in 1..Len(checks) :
                      checks[c].st = "pending" => ~checks'[c].notified
          /\ (stops[s].pc = "racing" /\ stops'[s].pc = "done")
                => /\ interruptTimeoutHandle' = 0
                   /\ \A c \in 1..Len(checks) :
                         checks[c].proc = stops[s].proc => checks'[c].st # "pending"
    ]_vars

\* C38: every socket the client has constructed and not closed is one of the
\* sockets its fields reference.
C38_NoSocketLeft ==
    \A i \in 1..Len(socks) : socks[i] # "closed" => i \in Referenced(sockets)

\* C39: every msg_id in the output and completion callback maps belongs to
\* a future that is still unsettled.
C39_EntriesUnsettled ==
    \A r \in completionCallbacks \cup outputCallbacks : reqs[r].fut = "pending"

\* C35: once disconnect() has resolved, the output and completion callback
\* maps are empty.
C35_EmptyWhenResolved ==
    discDone => outputCallbacks = {} /\ completionCallbacks = {}

\* C33: isKernelConnected() is true only while the shell, iopub and control
\* sockets all exist and are open, and executeCode() and interrupt() pass
\* their not-connected guard only while isKernelConnected() is true.
C33_ConnectedHasSockets ==
    isConnected =>
        \A c \in {"shell", "iopub", "control"} :
            sockets[c] # 0 /\ socks[sockets[c]] = "connected"

C33_NoIntermediateStates ==
    /\ [](C33_ConnectedHasSockets)
    /\ [][/\ reqs' # reqs => isConnected
          /\ (lastInterrupt' # lastInterrupt /\ lastInterrupt' \in {"sent", "sendError"})
                => isConnected]_vars

\* C34: an error message whose parent id has an output callback registered
\* is handed to that callback as an "Error" text; it settles no future and
\* removes no entry; and the idle status of a request that is still in both
\* maps resolves its future, also after an error was delivered.
ErrorMsg(p) == Msg([ok |-> TRUE, type |-> "error", es |-> "", plain |-> TRUE], p)
IdleMsg(p) == Msg([ok |-> TRUE, type |-> "status", es |-> "idle", plain |-> FALSE], p)

C34_ErrorKeepsPending ==
    [][\A l \in 1..Len(loops), p \in outputCallbacks :
          /\ IopubMessage(l, ErrorMsg(p))
                => /\ reqs'[p].outLog =
                        Append(reqs[p].outLog,
                               [pos |-> nMsgs + 1, parent |-> p, text |-> "Error"])
                   /\ \A r \in 1..Len(reqs) : reqs'[r].fut = reqs[r].fut
                   /\ outputCallbacks' = outputCallbacks
                   /\ completionCallbacks' = completionCallbacks
          /\ (/\ IopubMessage(l, IdleMsg(p))
              /\ p \in completionCallbacks
              /\ reqs[p].fut = "pending")
                => reqs'[p].fut = "resolved"
    ]_vars

\* an error was delivered to a request that was resolved by its idle later
C34_Witness ==
    \E r \in 1..Len(reqs) :
        /\ reqs[r].fut = "resolved"
        /\ \E i \in 1..Len(reqs[r].outLog) :
              reqs[r].outLog[i].text = "Error" /\ reqs[r].outLog[i].pos < reqs[r].donePos

\* C37: the content of every execute_request carries the code passed in, a
\* silent flag that is the negation of the display preference, and has
\* history storage and stdin prompting switched off.
C37_RequestFlags ==
    \A r \in 1..Len(reqs) :
        /\ reqs[r].content.code = reqs[r].code
        /\ reqs[r].content.silent = ~reqs[r].enableOutputViewer
        /\ reqs[r].content.store_history = FALSE
        /\ reqs[r].content.allow_stdin = FALSE

\* C36: a disconnect() that has been called resolves, whatever the kernel
\* sends and whatever the user does from then on.
C36_DisconnectTerminates == (discPc # "none") ~> discDone

\* the state of the clients once every one of them has disconnected
ClientDisconnected ==
    /\ discPc = "none"
    /\ ~isConnected
    /\ sockets = NoSockets
    /\ \A i \in 1..Len(socks) : socks[i] = "closed"
    /\ \A l \in 1..Len(loops) : loops[l].st = "done"

\* C31: on every teardown path the client has disconnected before the
\* supervisor writes the shutdown token or signals the process: when the
\* token is written, no disconnect() is in flight, no socket of a client is
\* open and no receive loop runs; a teardown handler that found a client
\* goes on only after disconnect() has resolved; and the SIGTERM of a stop
\* follows its token.
C31_DisconnectBeforeStop ==
    [][/\ (\E p \in 1..Len(procs) : procs'[p].shutdown /\ ~procs[p].shutdown)
            => ClientDisconnected
       /\ \A h \in 1..Len(handlers) :
            (handlers[h].pc = "disconnect" /\ handlers'[h].pc # "disconnect")
                => discDone /\ ClientDisconnected
       /\ \A s \in 1..Len(stops) :
            (\E p \in 1..Len(procs) : procs'[p].killed /\ ~procs[p].killed)
                /\ stops[s].killTimer = "pending" /\ stops'[s].killTimer = "fired"
                => procs[stops[s].proc].shutdown
    ]_vars

====
